---- MODULE Spec2Model ----
(***************************************************************************)
(* A model of keep-a-changelog-rs: the tokenizer (token.rs), the parser    *)
(* (parser.rs), the document model (changelog.rs, release.rs, changes.rs,  *)
(* link.rs) and the formatter (the Display implementations).  Text is      *)
(* modelled as TLA+ strings, character by character; Option<T> is the      *)
(* empty tuple (None) or a one-element tuple (Some).                       *)
(***************************************************************************)
EXTENDS Integers, Sequences, FiniteSets, TLC

(***************************************************************************)
(* Option<T>                                                               *)
(***************************************************************************)
None == <<>>
Some(x) == <<x>>
IsSome(o) == Len(o) = 1
IsNone(o) == Len(o) = 0
Unwrap(o) == o[1]

(***************************************************************************)
(* Result<T>: Ok(value) or Err(message)                                    *)
(***************************************************************************)
Ok(x) == [ok |-> TRUE, v |-> x]
Err(m) == [ok |-> FALSE, e |-> m]

(***************************************************************************)
(* std::str operations used by the sources                                 *)
(***************************************************************************)
NL == "\n"
WhiteSpace == {" ", "\t", "\n", "\r"}
Digits == {"0", "1", "2", "3", "4", "5", "6", "7", "8", "9"}

Ch(s, i) == SubSeq(s, i, i)

SetMin(S) == CHOOSE x \in S : \A y \in S : x <= y
SetMax(S) == CHOOSE x \in S : \A y \in S : x >= y

StartsWith(s, p) == Len(s) >= Len(p) /\ SubSeq(s, 1, Len(p)) = p

\* the first index at which p occurs in s, 0 when it does not (str::find)
Find(s, p) ==
  LET hits == {i \in 1..(Len(s) - Len(p) + 1) : SubSeq(s, i, i + Len(p) - 1) = p}
  IN IF hits = {} THEN 0 ELSE SetMin(hits)

StrContains(s, p) == Find(s, p) # 0

NonWs(s) == {i \in 1..Len(s) : Ch(s, i) \notin WhiteSpace}

TrimEnd(s) == IF NonWs(s) = {} THEN "" ELSE SubSeq(s, 1, SetMax(NonWs(s)))
TrimStart(s) == IF NonWs(s) = {} THEN "" ELSE SubSeq(s, SetMin(NonWs(s)), Len(s))
Trim(s) == IF NonWs(s) = {} THEN "" ELSE SubSeq(s, SetMin(NonWs(s)), SetMax(NonWs(s)))

\* str::trim_end_matches('\n')
TrimEndNewlines(s) ==
  LET keep == {i \in 1..Len(s) : Ch(s, i) # NL}
  IN IF keep = {} THEN "" ELSE SubSeq(s, 1, SetMax(keep))

\* str::split(sep): always at least one piece
RECURSIVE Split(_, _)
Split(s, sep) ==
  LET k == Find(s, sep)
  IN IF k = 0 THEN <<s>>
     ELSE <<SubSeq(s, 1, k - 1)>> \o Split(SubSeq(s, k + Len(sep), Len(s)), sep)

\* str::splitn(2, sep)
SplitN2(s, sep) ==
  LET k == Find(s, sep)
  IN IF k = 0 THEN <<s>>
     ELSE <<SubSeq(s, 1, k - 1), SubSeq(s, k + Len(sep), Len(s))>>

\* [String]::join(sep)
RECURSIVE Join(_, _)
Join(ss, sep) ==
  IF Len(ss) = 0 THEN ""
  ELSE IF Len(ss) = 1 THEN ss[1]
  ELSE ss[1] \o sep \o Join(Tail(ss), sep)

\* str::replace(from, to): non-overlapping matches, left to right, one pass
RECURSIVE Replace(_, _, _)
Replace(s, from, to) ==
  LET k == Find(s, from)
  IN IF k = 0 THEN s
     ELSE SubSeq(s, 1, k - 1) \o to \o Replace(SubSeq(s, k + Len(from), Len(s)), from, to)

\* str::replace([chars], "")
RECURSIVE RemoveChars(_, _)
RemoveChars(s, cs) ==
  IF Len(s) = 0 THEN ""
  ELSE IF Len(s) = 1 THEN (IF s \in cs THEN "" ELSE s)
  ELSE RemoveChars(SubSeq(s, 1, Len(s) \div 2), cs)
         \o RemoveChars(SubSeq(s, Len(s) \div 2 + 1, Len(s)), cs)

UpperCase == "ABCDEFGHIJKLMNOPQRSTUVWXYZ"
LowerCase == "abcdefghijklmnopqrstuvwxyz"
LowerOf(c) ==
  LET k == Find(UpperCase, c) IN IF k = 0 THEN c ELSE Ch(LowerCase, k)

\* str::to_lowercase
RECURSIVE ToLowercase(_)
ToLowercase(s) ==
  IF Len(s) = 0 THEN ""
  ELSE IF Len(s) = 1 THEN LowerOf(s)
  ELSE ToLowercase(SubSeq(s, 1, Len(s) \div 2))
         \o ToLowercase(SubSeq(s, Len(s) \div 2 + 1, Len(s)))

\* the order of the characters (by code point) that occur in the compared strings,
\* for String's Ord
Ascii == " #-.0123456789:ABCDEFGHIJKLMNOPQRSTUVWXYZ[]_abcdefghijklmnopqrstuvwxyz"
Code(c) == Find(Ascii, c)

RECURSIVE StrLess(_, _)
StrLess(a, b) ==
  IF Len(b) = 0 THEN FALSE
  ELSE IF Len(a) = 0 THEN TRUE
  ELSE IF Ch(a, 1) = Ch(b, 1) THEN StrLess(Tail(a), Tail(b))
  ELSE Code(Ch(a, 1)) < Code(Ch(b, 1))

\* a set of strings as its sorted vector (Vec::sort)
RECURSIVE SortStrings(_)
SortStrings(S) ==
  IF S = {} THEN <<>>
  ELSE LET m == CHOOSE x \in S : \A y \in S \ {x} : StrLess(x, y)
       IN <<m>> \o SortStrings(S \ {m})

(***************************************************************************)
(* The regex crate, as far as the patterns of the sources need it: a       *)
(* backtracking matcher with the crate's leftmost-first semantics.  A      *)
(* pattern is a sequence of nodes:                                         *)
(*   RSet(cs) one character of cs, RNot(cs) one character not in cs,       *)
(*   RLit(s) the text s, RRep(r, min, max) the pattern r repeated greedily *)
(*   (max = -1: unbounded), RLazy(r, min, max) the same, lazily,           *)
(*   ROpen(k) and RClose(k) the parentheses of capture group k,            *)
(*   RAlt(a, b) alternation, RBol and REol the anchors ^ and $.            *)
(* A match is [start, end, caps]: the matched text is s[start..end-1],     *)
(* caps[k] = <<from, to>> the text of group k (<<0, 0>>: did not take      *)
(* part).                                                                  *)
(***************************************************************************)
RSet(cs) == [t |-> "set", cs |-> cs]
RNot(cs) == [t |-> "not", cs |-> cs]
RLit(s) == [t |-> "lit", s |-> s]
RRep(r, min, max) == [t |-> "rep", r |-> r, min |-> min, max |-> max]
RLazy(r, min, max) == [t |-> "lazy", r |-> r, min |-> min, max |-> max]
ROpen(k) == [t |-> "open", k |-> k]
RClose(k) == [t |-> "close", k |-> k]
RAlt(a, b) == [t |-> "alt", a |-> a, b |-> b]
RBol == [t |-> "bol"]
REol == [t |-> "eol"]

RDot == RNot({NL})                 \* .
RSpace == RSet(WhiteSpace)         \* \s
RDigit == RSet(Digits)             \* \d
RStar(r) == RRep(r, 0, -1)         \* r*
RPlus(r) == RRep(r, 1, -1)         \* r+
ROpt(r) == RRep(r, 0, 1)           \* r?

NoMatch == [ok |-> FALSE]
NoCaps == [k \in 1..3 |-> <<0, 0>>]

Dec(n) == IF n > 0 THEN n - 1 ELSE n

InClass(n, c) == IF n.t = "set" THEN c \in n.cs ELSE c \notin n.cs
IsClass(r) == Len(r) = 1 /\ r[1].t \in {"set", "not"}
\* how many characters from position i on are in the class n, at most max
RunLength(n, max, s, i) ==
  LET out == {j \in i..Len(s) : ~InClass(n, Ch(s, j))}
      run == (IF out = {} THEN Len(s) + 1 ELSE SetMin(out)) - i
  IN IF max >= 0 /\ max < run THEN max ELSE run

\* the first way (in the crate's preference order) to match the nodes k at
\* position i of s; open[k] is where group k was entered
RECURSIVE RMatch(_, _, _, _, _)
RMatch(k, s, i, caps, open) ==
  IF Len(k) = 0 THEN [ok |-> TRUE, end |-> i, caps |-> caps]
  ELSE
    LET n == Head(k)
        rest == Tail(k)
    IN CASE n.t = "set" ->
              IF i <= Len(s) /\ Ch(s, i) \in n.cs
              THEN RMatch(rest, s, i + 1, caps, open) ELSE NoMatch
         [] n.t = "not" ->
              IF i <= Len(s) /\ Ch(s, i) \notin n.cs
              THEN RMatch(rest, s, i + 1, caps, open) ELSE NoMatch
         [] n.t = "lit" ->
              IF i + Len(n.s) - 1 <= Len(s) /\ SubSeq(s, i, i + Len(n.s) - 1) = n.s
              THEN RMatch(rest, s, i + Len(n.s), caps, open) ELSE NoMatch
         [] n.t = "bol" ->
              IF i = 1 THEN RMatch(rest, s, i, caps, open) ELSE NoMatch
         [] n.t = "eol" ->
              IF i = Len(s) + 1 THEN RMatch(rest, s, i, caps, open) ELSE NoMatch
         [] n.t = "open" ->
              RMatch(rest, s, i, caps, [open EXCEPT ![n.k] = i])
         [] n.t = "close" ->
              RMatch(rest, s, i, [caps EXCEPT ![n.k] = <<open[n.k], i>>], open)
         [] n.t = "alt" ->
              LET first == RMatch(n.a \o rest, s, i, caps, open)
              IN IF first.ok THEN first ELSE RMatch(n.b \o rest, s, i, caps, open)
         [] n.t = "rep" /\ IsClass(n.r) ->
              \* a repeated character class: the longest repetition first
              LET fit == {c \in n.min..RunLength(n.r[1], n.max, s, i) :
                            RMatch(rest, s, i + c, caps, open).ok}
              IN IF fit = {} THEN NoMatch
                 ELSE RMatch(rest, s, i + SetMax(fit), caps, open)
         [] n.t = "lazy" /\ IsClass(n.r) ->
              \* the shortest repetition first
              LET fit == {c \in n.min..RunLength(n.r[1], n.max, s, i) :
                            RMatch(rest, s, i + c, caps, open).ok}
              IN IF fit = {} THEN NoMatch
                 ELSE RMatch(rest, s, i + SetMin(fit), caps, open)
         [] n.t = "rep" /\ ~IsClass(n.r) ->
              LET again == <<RRep(n.r, Dec(n.min), Dec(n.max))>>
                  more == IF n.max = 0 THEN NoMatch
                          ELSE RMatch(n.r \o again \o rest, s, i, caps, open)
              IN IF more.ok THEN more
                 ELSE IF n.min > 0 THEN NoMatch
                 ELSE RMatch(rest, s, i, caps, open)
         [] n.t = "lazy" /\ ~IsClass(n.r) ->
              LET again == <<RLazy(n.r, Dec(n.min), Dec(n.max))>>
                  stop == IF n.min > 0 THEN NoMatch
                          ELSE RMatch(rest, s, i, caps, open)
              IN IF stop.ok THEN stop
                 ELSE IF n.max = 0 THEN NoMatch
                 ELSE RMatch(n.r \o again \o rest, s, i, caps, open)

\* Regex::captures: the leftmost match, searched from position i on
RECURSIVE RSearchFrom(_, _, _)
RSearchFrom(re, s, i) ==
  IF i > Len(s) + 1 THEN NoMatch
  ELSE LET m == RMatch(re, s, i, NoCaps, [k \in 1..3 |-> 0])
       IN IF m.ok THEN [ok |-> TRUE, start |-> i, end |-> m.end, caps |-> m.caps]
          ELSE RSearchFrom(re, s, i + 1)

Captures(re, s) == RSearchFrom(re, s, 1)
\* Regex::is_match
IsMatch(re, s) == Captures(re, s).ok
\* captures[k] as text
Group(s, m, k) ==
  IF m.caps[k][1] = 0 THEN "" ELSE SubSeq(s, m.caps[k][1], m.caps[k][2] - 1)

(***************************************************************************)
(* utils.rs                                                                *)
(***************************************************************************)
\* substring(s, start): the text from character start on, trimmed
Substring(s, start) ==
  IF start >= Len(s) THEN "" ELSE Trim(SubSeq(s, start + 1, Len(s)))

IsEmptyStr(s) == Trim(s) = ""
IsEmptyStrVec(v) == \A i \in 1..Len(v) : IsEmptyStr(v[i])

GetCompareUrl(url, previous, current) ==
  url \o "/compare/" \o previous \o "..." \o current

GetReleaseUrl(url, tag) == url \o "/releases/tag/" \o tag

(***************************************************************************)
(* consts.rs                                                               *)
(***************************************************************************)
CHANGELOG_TITLE == "Changelog"
CHANGELOG_DESCRIPTION ==
  "All notable changes to this project will be documented in this file.\n\nThe format is based on [Keep a Changelog](https://keepachangelog.com/en/1.0.0/)\nand this project adheres to [Semantic Versioning](https://semver.org/spec/v2.0.0.html)."
PREFIX_HR == "---"
PREFIX_H1 == "# "
PREFIX_H2 == "## "
PREFIX_H3 == "### "
PREFIX_LI == "-"
PREFIX_LI2 == "*"

(***************************************************************************)
(* token.rs                                                                *)
(***************************************************************************)
TokenKind == {"H1", "H2", "H3", "Li", "P", "Link", "Flag", "Hr", "Lint"}

\* impl Display for TokenKind
TokenKindName(kind) ==
  CASE kind = "H1" -> "Heading 1"
    [] kind = "H2" -> "Heading 2"
    [] kind = "H3" -> "Heading 3"
    [] kind = "Li" -> "List Item"
    [] kind = "P" -> "Paragraph"
    [] kind = "Link" -> "Link"
    [] kind = "Flag" -> "Flag"
    [] kind = "Hr" -> "Horizontal Rule"
    [] kind = "Lint" -> "Lint"

NewToken(line, kind, content) ==
  [line |-> line, kind |-> kind, content |-> content]

\* ^\[.*\]\:\s*http.*$
link_regex ==
  <<RBol, RLit("["), RStar(<<RDot>>), RLit("]"), RLit(":"), RStar(<<RSpace>>),
    RLit("http"), RStar(<<RDot>>), REol>>
\* ^\[.*\]\:$
link_ref_regex == <<RBol, RLit("["), RStar(<<RDot>>), RLit("]"), RLit(":"), REol>>
\* ^<!--(.*)-->$
comment_regex ==
  <<RBol, RLit("<!--"), ROpen(1), RStar(<<RDot>>), RClose(1), RLit("-->"), REol>>
\* \s+http.*$
link_prefix_regex == <<RPlus(<<RSpace>>), RLit("http"), RStar(<<RDot>>), REol>>

\* the closure of extract_tokens on line idx (0-based) of lines: the token it
\* yields (None: the line yields no token) and the flag it leaves behind
ExtractLine(lines, idx, empty_next_line) ==
  LET ln == idx + 1
      line == IF empty_next_line THEN "" ELSE lines[idx + 1]
      comment == Captures(comment_regex, line)
      text == Trim(Group(line, comment, 1))
      yield(t) == [token |-> Some(t), empty_next_line |-> FALSE]
  IN IF StartsWith(line, PREFIX_HR) THEN yield(NewToken(ln, "Hr", <<"-">>))
     ELSE IF StartsWith(line, PREFIX_H1)
       THEN yield(NewToken(ln, "H1", <<Substring(line, 1)>>))
     ELSE IF StartsWith(line, PREFIX_H2)
       THEN yield(NewToken(ln, "H2", <<Substring(line, 2)>>))
     ELSE IF StartsWith(line, PREFIX_H3)
       THEN yield(NewToken(ln, "H3", <<Substring(line, 3)>>))
     ELSE IF StartsWith(line, PREFIX_LI) \/ StartsWith(line, PREFIX_LI2)
       THEN yield(NewToken(ln, "Li", <<Substring(line, 1)>>))
     ELSE IF IsMatch(link_regex, line)
       THEN yield(NewToken(ln, "Link", <<Trim(line)>>))
     ELSE IF IsMatch(link_ref_regex, line)
       THEN IF idx + 2 <= Len(lines) /\ IsMatch(link_prefix_regex, lines[idx + 2])
            THEN [token |-> Some(NewToken(ln, "Link",
                               <<Trim(line) \o NL \o TrimEnd(lines[idx + 2])>>)),
                  empty_next_line |-> TRUE]
            ELSE [token |-> None, empty_next_line |-> FALSE]
     ELSE IF comment.ok
       THEN IF StartsWith(text, "markdownlint-disable")
            THEN yield(NewToken(ln, "Lint", <<text>>))
            ELSE yield(NewToken(ln, "Flag", <<text>>))
     ELSE yield(NewToken(ln, "P", <<TrimEnd(line)>>))

RECURSIVE ExtractFrom(_, _, _)
ExtractFrom(lines, idx, empty_next_line) ==
  IF idx >= Len(lines) THEN <<>>
  ELSE LET r == ExtractLine(lines, idx, empty_next_line)
       IN r.token \o ExtractFrom(lines, idx + 1, r.empty_next_line)

extract_tokens(markdown) == ExtractFrom(Split(Trim(markdown), NL), 0, FALSE)

\* the first loop of tokenize: "compact" (an H1 whose next token is not
\* empty was found), "panic" (tokens[idx + 1] is past the end: an H1 is the
\* last token and no earlier H1 ended the loop) or "loose"
CompactScan(tokens) ==
  LET hits == {i \in 1..Len(tokens) :
                 /\ tokens[i].kind = "H1"
                 /\ (i = Len(tokens) \/ tokens[i + 1].content[1] # "")}
      first == SetMin(hits)
  IN IF hits = {} THEN "loose"
     ELSE IF first = Len(tokens) THEN "panic"
     ELSE "compact"

\* ^\s\s replaced by nothing
StripTwoSpaces(content) ==
  IF Len(content) >= 2 /\ Ch(content, 1) \in WhiteSpace /\ Ch(content, 2) \in WhiteSpace
  THEN SubSeq(content, 3, Len(content)) ELSE content

\* the second loop of tokenize, from token idx (1-based) on
RECURSIVE MergeFrom(_, _, _)
MergeFrom(tokens, idx, result) ==
  IF idx > Len(tokens) THEN result
  ELSE
    LET token == tokens[idx]
        content == token.content[1]
        prev == Len(result)
        push(text) == [result EXCEPT ![prev].content = Append(@, text)]
    IN IF idx > 1 /\ token.kind = "P" /\ result[prev].kind = "P"
         THEN MergeFrom(tokens, idx + 1, push(content))
       ELSE IF idx > 1 /\ token.kind = "P" /\ result[prev].kind = "Li"
         THEN MergeFrom(tokens, idx + 1, push(StripTwoSpaces(content)))
       ELSE MergeFrom(tokens, idx + 1,
                      Append(result, NewToken(token.line, token.kind, <<content>>)))

\* the two while loops of the final map: the blank lines at both ends go
TrimContent(content) ==
  LET full == {i \in 1..Len(content) : ~IsEmptyStr(content[i])}
  IN SubSeq(content, SetMin(full), SetMax(full))

SelectSeqTokens(tokens) ==
  LET keep(t) == ~IsEmptyStrVec(t.content) IN SelectSeq(tokens, keep)

\* tokenize after its first line: [panic |-> TRUE] or
\* [panic |-> FALSE, compact, tokens]
TokenizeFrom(tokens) ==
  LET scan == CompactScan(tokens)
      kept == SelectSeqTokens(MergeFrom(tokens, 1, <<>>))
  IN IF scan = "panic" THEN [panic |-> TRUE]
     ELSE [panic |-> FALSE,
           compact |-> scan = "compact",
           tokens |-> [i \in 1..Len(kept) |->
                         [kept[i] EXCEPT !.content = TrimContent(@)]]]

tokenize(markdown) == TokenizeFrom(extract_tokens(markdown))

(***************************************************************************)
(* semver::Version and chrono::NaiveDate                                   *)
(***************************************************************************)
DigitString == "0123456789"
DigitValue(c) == Find(DigitString, c) - 1

IsNumber(s) == Len(s) > 0 /\ \A i \in 1..Len(s) : Ch(s, i) \in Digits

RECURSIVE ParseNat(_)
ParseNat(s) ==
  IF Len(s) = 0 THEN 0
  ELSE 10 * ParseNat(SubSeq(s, 1, Len(s) - 1)) + DigitValue(Ch(s, Len(s)))

\* u64's and usize's Display
RECURSIVE NatToString(_)
NatToString(n) ==
  IF n < 10 THEN Ch(DigitString, n + 1)
  ELSE NatToString(n \div 10) \o Ch(DigitString, (n % 10) + 1)

\* a numeric identifier of semver: digits, no leading zero
IsNumericIdent(s) == IsNumber(s) /\ (Len(s) = 1 \/ Ch(s, 1) # "0")

\* Version::parse on MAJOR.MINOR.PATCH; pre-release and build metadata are not
\* part of the texts the model draws, a text carrying them is an error here
ParseVersion(text) ==
  LET parts == Split(text, ".")
  IN IF Len(parts) = 3 /\ \A i \in 1..3 : IsNumericIdent(parts[i])
     THEN Ok([major |-> ParseNat(parts[1]),
              minor |-> ParseNat(parts[2]),
              patch |-> ParseNat(parts[3])])
     ELSE Err("unexpected character while parsing version")

\* impl Display for Version
VersionToString(v) ==
  NatToString(v.major) \o "." \o NatToString(v.minor) \o "." \o NatToString(v.patch)

IsLeapYear(y) == (y % 4 = 0 /\ y % 100 # 0) \/ y % 400 = 0
DaysInMonth(y, m) ==
  IF m = 2 THEN (IF IsLeapYear(y) THEN 29 ELSE 28)
  ELSE IF m \in {4, 6, 9, 11} THEN 30 ELSE 31

\* NaiveDate::parse_from_str(text, "%Y-%m-%d"): a date is <<year, month, day>>
ParseDate(text) ==
  LET parts == Split(text, "-")
      y == ParseNat(parts[1])
      m == ParseNat(parts[2])
      d == ParseNat(parts[3])
  IN IF /\ Len(parts) = 3
        /\ \A i \in 1..3 : IsNumber(parts[i])
        /\ Len(parts[2]) <= 2 /\ Len(parts[3]) <= 2
        /\ m \in 1..12 /\ d \in 1..DaysInMonth(y, m)
     THEN Ok(<<y, m, d>>)
     ELSE Err("input is out of range or malformed")

Pad(n, width) ==
  LET t == NatToString(n)
  IN IF Len(t) >= width THEN t
     ELSE SubSeq("0000", 1, width - Len(t)) \o t

\* NaiveDate::format("%Y-%m-%d")
FormatDate(d) == Pad(d[1], 4) \o "-" \o Pad(d[2], 2) \o "-" \o Pad(d[3], 2)

\* Ord for Option<NaiveDate>: None is the least, dates in calendar order
DateLess(a, b) ==
  IF IsNone(b) THEN FALSE
  ELSE IF IsNone(a) THEN TRUE
  ELSE LET x == Unwrap(a)
           y == Unwrap(b)
       IN \/ x[1] < y[1]
          \/ x[1] = y[1] /\ x[2] < y[2]
          \/ x[1] = y[1] /\ x[2] = y[2] /\ x[3] < y[3]

(***************************************************************************)
(* changes.rs: the data                                                    *)
(***************************************************************************)
ChangeKinds == <<"added", "changed", "deprecated", "removed", "fixed", "security">>
ChangeKindSet == {ChangeKinds[i] : i \in 1..Len(ChangeKinds)}

\* impl FromStr for ChangeKind
ChangeKindFromStr(text) ==
  IF ToLowercase(text) \in ChangeKindSet THEN Ok(ToLowercase(text))
  ELSE Err("Unknown change type: " \o text)

\* Changes::default
NoChanges == [k \in ChangeKindSet |-> <<>>]
\* Changes::add
ChangesAdd(changes, kind, change) == [changes EXCEPT ![kind] = Append(@, change)]
\* Changes::is_empty
ChangesIsEmpty(changes) == \A k \in ChangeKindSet : changes[k] = <<>>

(***************************************************************************)
(* link.rs                                                                 *)
(***************************************************************************)
NewLink(anchor, url) == [anchor |-> anchor, url |-> url]

\* Link::parse
LinkParse(line) ==
  LET parts == SplitN2(line, ": ")
  IN IF Len(parts) < 2 THEN Err("Missing url")
     ELSE Ok(NewLink(RemoveChars(parts[1], {"[", "]"}), parts[2]))

\* Link::new
LinkNew(anchor, url) ==
  LET stripped == RemoveChars(anchor, {"[", "]", ":"})
  IN IF stripped = "" THEN Err("Missing anchor: ")
     ELSE IF url = "" THEN Err("Missing url")
     ELSE Ok(NewLink(stripped, url))

\* impl Display for Link
LinkToString(link) == "[" \o link.anchor \o "]: " \o link.url

(***************************************************************************)
(* release.rs: the data.  The private field compact is false in every      *)
(* stored Release (only the formatter's clones set it), so it is left out  *)
(* and passed to the formatter instead.                                    *)
(***************************************************************************)
NewRelease(version, date, yanked, description, changes) ==
  [version |-> version, date |-> date, yanked |-> yanked,
   description |-> description, changes |-> changes]

\* the predicate of get_unreleased and sort_releases
IsUnreleased(r) == IsNone(r.version) /\ IsNone(r.date)

\* Ord for Release
ReleaseLess(a, b) == DateLess(a.date, b.date)

(***************************************************************************)
(* changelog.rs: the data and the operations on it                         *)
(***************************************************************************)
RemoveAt(seq, i) == SubSeq(seq, 1, i - 1) \o SubSeq(seq, i + 1, Len(seq))

\* releases.sort_by(|a, b| b.cmp(a)): a stable sort, the greatest date first
InsertSorted(sorted, r) ==
  LET smaller == {i \in 1..Len(sorted) : ReleaseLess(sorted[i], r)}
      at == IF smaller = {} THEN Len(sorted) + 1 ELSE SetMin(smaller)
  IN SubSeq(sorted, 1, at - 1) \o <<r>> \o SubSeq(sorted, at, Len(sorted))

RECURSIVE SortByDateDesc(_)
SortByDateDesc(releases) ==
  IF Len(releases) = 0 THEN <<>>
  ELSE InsertSorted(SortByDateDesc(SubSeq(releases, 1, Len(releases) - 1)),
                    releases[Len(releases)])

\* sort_releases with the sort_by call left out, a fault the sort invariant
\* detects
sort_releases_unsorted(releases) ==
  LET found == {i \in 1..Len(releases) : IsUnreleased(releases[i])}
      rest == IF found = {} THEN releases ELSE RemoveAt(releases, SetMin(found))
  IN IF found = {} THEN rest ELSE <<releases[SetMin(found)]>> \o rest

\* Changelog::sort_releases and ChangelogBuilder::sort_releases (the same code)
sort_releases(releases) ==
  LET found == {i \in 1..Len(releases) : IsUnreleased(releases[i])}
      rest == IF found = {} THEN releases ELSE RemoveAt(releases, SetMin(found))
      sorted == SortByDateDesc(rest)
  IN IF found = {} THEN sorted ELSE <<releases[SetMin(found)]>> \o sorted

LintsOfCompact == {"MD022", "MD032"}

\* ChangelogBuilder::default() with its setters applied, then build()
NewChangelog(url, tag_prefix, head, releases, compact) ==
  [lint |-> IF compact THEN Some(LintsOfCompact) ELSE None,
   flag |-> None,
   title |-> None,
   description |-> None,
   head |-> head,
   footer |-> None,
   url |-> url,
   releases |-> sort_releases(releases),
   links |-> <<>>,
   tag_prefix |-> tag_prefix,
   compact |-> compact]

\* add_release that leaves the list alone when it holds an equal release
add_release_unique(c, release) ==
  IF \E i \in 1..Len(c.releases) : c.releases[i] = release THEN c
  ELSE [c EXCEPT !.releases = sort_releases(<<release>> \o c.releases)]

\* add_release putting every release without version and date in front, the
\* stored ones before the new one
add_release_behind(c, release) ==
  [c EXCEPT !.releases =
     SelectSeq(c.releases, LAMBDA r : IsNone(r.version) /\ IsNone(r.date))
       \o SelectSeq(<<release>>, LAMBDA r : IsNone(r.version) /\ IsNone(r.date))
       \o SortByDateDesc(SelectSeq(<<release>> \o c.releases,
                                   LAMBDA r : IsSome(r.version) \/ IsSome(r.date)))]

\* Changelog::add_release
add_release(c, release) ==
  [c EXCEPT !.releases = sort_releases(<<release>> \o c.releases)]

\* Changelog::get_unreleased
get_unreleased(c) ==
  LET found == {i \in 1..Len(c.releases) : IsUnreleased(c.releases[i])}
  IN IF found = {} THEN None ELSE Some(c.releases[SetMin(found)])

\* Changelog::disable_lint
disable_lint(c, lint) ==
  [c EXCEPT !.lint = IF IsSome(c.lint) THEN Some(Unwrap(c.lint) \cup {lint})
                                       ELSE Some({lint})]

\* enable_lint that keeps the set when its last lint is removed
enable_lint_keeping(c, lint) ==
  IF IsNone(c.lint) THEN c ELSE [c EXCEPT !.lint = Some(Unwrap(c.lint) \ {lint})]

\* Changelog::enable_lint
enable_lint(c, lint) ==
  IF IsNone(c.lint) THEN c
  ELSE IF Unwrap(c.lint) \ {lint} = {} THEN [c EXCEPT !.lint = None]
  ELSE [c EXCEPT !.lint = Some(Unwrap(c.lint) \ {lint})]

\* Changelog::set_compact
set_compact(c) ==
  disable_lint(disable_lint([c EXCEPT !.compact = TRUE], "MD022"), "MD032")

\* Changelog::unset_compact
unset_compact(c) ==
  enable_lint(enable_lint([c EXCEPT !.compact = FALSE], "MD022"), "MD032")

\* add_link putting the new Link in front of the others
add_link_front(c, anchor, url) ==
  LET link == LinkNew(anchor, url)
  IN IF link.ok THEN [c EXCEPT !.links = <<link.v>> \o @] ELSE c

\* Changelog::add_link
add_link(c, anchor, url) ==
  LET link == LinkNew(anchor, url)
  IN IF link.ok THEN [c EXCEPT !.links = Append(@, link.v)] ELSE c

\* tag_name with the tag prefix forgotten
tag_name_unprefixed(c, version) == version

\* Changelog::tag_name
tag_name(c, version) ==
  IF IsSome(c.tag_prefix) THEN Unwrap(c.tag_prefix) \o version ELSE version

\* compare_link with the head of the document ignored in favour of "HEAD"
compare_link_fixed_head(c, current, previous) ==
  IF IsNone(c.url) THEN Err("Missing repo URL")
  ELSE IF IsNone(previous) THEN
    IF IsNone(current.version) THEN Err("Missing version for current release")
    ELSE LET version == VersionToString(Unwrap(current.version))
         IN Ok(Some(NewLink(version,
                            GetReleaseUrl(Unwrap(c.url), tag_name(c, version)))))
  ELSE IF IsNone(current.date) \/ IsNone(current.version) THEN
    IF IsNone(Unwrap(previous).version)
    THEN Err("Missing version for previous release")
    ELSE LET version == VersionToString(Unwrap(Unwrap(previous).version))
         IN Ok(Some(NewLink("Unreleased",
                            GetCompareUrl(Unwrap(c.url), tag_name(c, version), "HEAD"))))
  ELSE IF IsNone(Unwrap(previous).version)
    THEN Err("Missing version for previous release")
  ELSE LET current_version == VersionToString(Unwrap(current.version))
           previous_version == VersionToString(Unwrap(Unwrap(previous).version))
       IN Ok(Some(NewLink(current_version,
                          GetCompareUrl(Unwrap(c.url),
                                        tag_name(c, previous_version),
                                        tag_name(c, current_version)))))

\* compare_link with a missing repository URL taken as the empty string
compare_link_default_url(c, current, previous) ==
  LET url == IF IsSome(c.url) THEN Unwrap(c.url) ELSE ""
  IN
  IF IsNone(previous) THEN
    IF IsNone(current.version) THEN Err("Missing version for current release")
    ELSE LET version == VersionToString(Unwrap(current.version))
         IN Ok(Some(NewLink(version,
                            GetReleaseUrl(url, tag_name(c, version)))))
  ELSE IF IsNone(current.date) \/ IsNone(current.version) THEN
    IF IsNone(Unwrap(previous).version)
    THEN Err("Missing version for previous release")
    ELSE LET version == VersionToString(Unwrap(Unwrap(previous).version))
         IN Ok(Some(NewLink("Unreleased",
                            GetCompareUrl(url, tag_name(c, version), c.head))))
  ELSE IF IsNone(Unwrap(previous).version)
    THEN Err("Missing version for previous release")
  ELSE LET current_version == VersionToString(Unwrap(current.version))
           previous_version == VersionToString(Unwrap(Unwrap(previous).version))
       IN Ok(Some(NewLink(current_version,
                          GetCompareUrl(url,
                                        tag_name(c, previous_version),
                                        tag_name(c, current_version)))))

\* Changelog::compare_link: Result<Option<Link>>
ChangelogCompareLink(c, current, previous) ==
  IF IsNone(c.url) THEN Err("Missing repo URL")
  ELSE IF IsNone(previous) THEN
    IF IsNone(current.version) THEN Err("Missing version for current release")
    ELSE LET version == VersionToString(Unwrap(current.version))
         IN Ok(Some(NewLink(version,
                            GetReleaseUrl(Unwrap(c.url), tag_name(c, version)))))
  ELSE IF IsNone(current.date) \/ IsNone(current.version) THEN
    IF IsNone(Unwrap(previous).version)
    THEN Err("Missing version for previous release")
    ELSE LET version == VersionToString(Unwrap(Unwrap(previous).version))
         IN Ok(Some(NewLink("Unreleased",
                            GetCompareUrl(Unwrap(c.url), tag_name(c, version), c.head))))
  ELSE IF IsNone(Unwrap(previous).version)
    THEN Err("Missing version for previous release")
  ELSE LET current_version == VersionToString(Unwrap(current.version))
           previous_version == VersionToString(Unwrap(Unwrap(previous).version))
       IN Ok(Some(NewLink(current_version,
                          GetCompareUrl(Unwrap(c.url),
                                        tag_name(c, previous_version),
                                        tag_name(c, current_version)))))

\* compare_link taking the next release as the previous one, dated or not
release_compare_link_next(release, c) ==
  LET at == {i \in 1..Len(c.releases) : c.releases[i] = release}
      index == SetMin(at)
      dated == {j \in (index + 1)..Len(c.releases) : TRUE}
      previous == IF dated = {} THEN None ELSE Some(c.releases[SetMin(dated)])
  IN IF at = {} THEN Err("Release not found")
     ELSE IF IsNone(previous) /\ (IsNone(release.date) \/ IsNone(release.version))
       THEN Ok(None)
     ELSE ChangelogCompareLink(c, release, previous)

\* compare_link yielding no link only for a release with neither date nor version
release_compare_link_strict(release, c) ==
  LET at == {i \in 1..Len(c.releases) : c.releases[i] = release}
      index == SetMin(at)
      dated == {j \in (index + 1)..Len(c.releases) : IsSome(c.releases[j].date)}
      previous == IF dated = {} THEN None ELSE Some(c.releases[SetMin(dated)])
  IN IF at = {} THEN Err("Release not found")
     ELSE IF IsNone(previous) /\ (IsNone(release.date) /\ IsNone(release.version))
       THEN Ok(None)
     ELSE ChangelogCompareLink(c, release, previous)

\* Release::compare_link: Result<Option<Link>>
ReleaseCompareLink(release, c) ==
  LET at == {i \in 1..Len(c.releases) : c.releases[i] = release}
      index == SetMin(at)
      dated == {j \in (index + 1)..Len(c.releases) : IsSome(c.releases[j].date)}
      previous == IF dated = {} THEN None ELSE Some(c.releases[SetMin(dated)])
  IN IF at = {} THEN Err("Release not found")
     ELSE IF IsNone(previous) /\ (IsNone(release.date) \/ IsNone(release.version))
       THEN Ok(None)
     ELSE ChangelogCompareLink(c, release, previous)

(***************************************************************************)
(* The formatter: the Display implementations.  A formatter's result is    *)
(* Ok(text) or Err (fmt::Error, or a panic inside fmt).                    *)
(***************************************************************************)
Concat(texts) == Join(texts, "")

\* print_changes of changes.rs
PrintChange(change) ==
  LET lines == Split(change, NL)
      title == [i \in 1..Len(lines) |-> TrimEnd("  " \o lines[i])]
      first == "- " \o Substring(title[1], 1)
  IN Join(<<first>> \o Tail(title), NL) \o NL

print_changes(changes) == Concat([i \in 1..Len(changes) |-> PrintChange(changes[i])])

KindTitle(kind) ==
  CASE kind = "added" -> "Added"
    [] kind = "changed" -> "Changed"
    [] kind = "deprecated" -> "Deprecated"
    [] kind = "removed" -> "Removed"
    [] kind = "fixed" -> "Fixed"
    [] kind = "security" -> "Security"

\* one "if !self.<kind>.is_empty()" block of impl Display for Changes;
\* first_printed is ensure_newline's flag on entry
ChangesSection(changes, kind, compact, first_printed) ==
  IF changes[kind] = <<>> THEN ""
  ELSE (IF first_printed THEN NL ELSE "")
       \o "### " \o KindTitle(kind) \o NL
       \o (IF compact THEN "" ELSE NL)
       \o print_changes(changes[kind])
       \o NL

\* impl Display for Changes
ChangesToString(changes, compact) ==
  Concat([i \in 1..Len(ChangeKinds) |->
            ChangesSection(changes, ChangeKinds[i], compact,
                           \E j \in 1..(i - 1) : changes[ChangeKinds[j]] # <<>>)])

\* impl Display for Release, compact being the value set_compact gave the clone
ReleaseToString(r, compact) ==
  LET yanked == IF r.yanked THEN " [YANKED]" ELSE ""
      heading ==
        IF IsSome(r.version)
        THEN "## [" \o VersionToString(Unwrap(r.version)) \o "] - "
               \o FormatDate(Unwrap(r.date)) \o yanked \o NL
        ELSE "## [Unreleased]" \o NL
      body ==
        (IF compact THEN "" ELSE NL)
        \o (IF IsSome(r.description) THEN Unwrap(r.description) \o NL ELSE "")
        \o (IF ~ChangesIsEmpty(r.changes) THEN ChangesToString(r.changes, compact)
            ELSE IF compact THEN NL ELSE "")
  IN IF IsSome(r.version) /\ IsNone(r.date) THEN Err("Missing date")
     ELSE Ok(heading \o body)

\* \d+\.\d+\.\d+((-rc|-x)\.\d+)?
tag_regex ==
  <<RPlus(<<RDigit>>), RLit("."), RPlus(<<RDigit>>), RLit("."), RPlus(<<RDigit>>),
    ROpt(<<ROpen(1), ROpen(2), RAlt(<<RLit("-rc")>>, <<RLit("-x")>>), RClose(2),
           RLit("."), RPlus(<<RDigit>>), RClose(1)>>)>>

IsNonCompareLink(link) ==
  ~IsMatch(tag_regex, link.anchor) /\ ~StrContains(link.anchor, "Unreleased")

\* impl Display for Changelog, through to_string(): Err is the panic of
\* to_string() on fmt::Error or of expect("Failed to get compare link")
ChangelogToString(c) ==
  LET lint == IF IsSome(c.lint)
              THEN "<!-- markdownlint-disable "
                     \o Join(SortStrings(Unwrap(c.lint)), " ") \o " -->" \o NL
              ELSE ""
      flag == IF IsSome(c.flag) THEN "<!-- " \o Unwrap(c.flag) \o " -->" \o NL ELSE ""
      title == "# " \o (IF IsSome(c.title) THEN Unwrap(c.title) ELSE CHANGELOG_TITLE)
                 \o NL \o (IF c.compact THEN "" ELSE NL)
      description == (IF IsSome(c.description) THEN Trim(Unwrap(c.description))
                      ELSE CHANGELOG_DESCRIPTION) \o NL \o NL
      releases == [i \in 1..Len(c.releases) |-> ReleaseToString(c.releases[i], c.compact)]
      plain == SelectSeq(c.links, IsNonCompareLink)
      links == Concat([i \in 1..Len(plain) |-> NL \o LinkToString(plain[i])])
                 \o (IF Len(plain) > 0 THEN NL ELSE "")
      compare == [i \in 1..Len(c.releases) |-> ReleaseCompareLink(c.releases[i], c)]
      made == SelectSeq(compare, LAMBDA r : IsSome(r.v))
      compare_links == Concat([i \in 1..Len(made) |->
                                 LinkToString(Unwrap(made[i].v)) \o NL])
      footer == IF IsSome(c.footer) THEN "---" \o NL \o Unwrap(c.footer) \o NL ELSE ""
  IN IF \E i \in 1..Len(releases) : ~releases[i].ok
       THEN Err("a Display implementation returned an error unexpectedly")
     ELSE IF \E i \in 1..Len(compare) : ~compare[i].ok
       THEN Err("Failed to get compare link: "
                  \o compare[SetMin({i \in 1..Len(compare) : ~compare[i].ok})].e)
     ELSE Ok(lint \o flag \o title \o description
             \o Concat([i \in 1..Len(releases) |-> releases[i].v])
             \o links \o compare_links \o footer)

\* the lines of file_contents after to_string()
Collapsed(contents) ==
  IF ~contents.ok THEN contents
  ELSE Ok(TrimEndNewlines(Replace(contents.v, NL \o NL \o NL, NL \o NL)) \o NL)

\* Changelog::file_contents; Err is the panic of to_string()
file_contents(c) == Collapsed(ChangelogToString(c))

(***************************************************************************)
(* parser.rs.  The cursor idx counts consumed tokens (tokens[idx + 1] is   *)
(* the token under the cursor).                                            *)
(***************************************************************************)
\* ChangelogParseOptions
ParseOptions(url, tag_prefix, head) == [url |-> url, tag_prefix |-> tag_prefix, head |-> head]
DefaultOptions == ParseOptions(None, None, None)

\* Parser::get_content
get_content(tokens, idx, kinds) ==
  IF idx >= Len(tokens) THEN [content |-> None, token |-> None, idx |-> idx]
  ELSE IF tokens[idx + 1].kind \notin kinds
    THEN [content |-> None, token |-> Some(tokens[idx + 1]), idx |-> idx]
  ELSE [content |-> Some(Join(tokens[idx + 1].content, NL)),
        token |-> Some(tokens[idx + 1]),
        idx |-> idx + 1]

\* get_text_content taking paragraphs only, the list items left to the grammar
get_text_content_paragraphs(tokens, idx) ==
  LET stop == {i \in (idx + 1)..Len(tokens) : tokens[i].kind # "P"}
      end == IF stop = {} THEN Len(tokens) ELSE SetMin(stop) - 1
      lines == [i \in 1..(end - idx) |-> Join(tokens[idx + i].content, NL)]
  IN [content |-> IF end = idx THEN None ELSE Some(Join(lines, NL)),
      idx |-> end]

\* Parser::get_text_content
get_text_content(tokens, idx) ==
  LET stop == {i \in (idx + 1)..Len(tokens) : tokens[i].kind \notin {"P", "Li"}}
      end == IF stop = {} THEN Len(tokens) ELSE SetMin(stop) - 1
      lines == [i \in 1..(end - idx) |->
                  IF tokens[idx + i].kind = "Li"
                  THEN "- " \o Join(tokens[idx + i].content, NL)
                  ELSE Join(tokens[idx + i].content, NL)]
  IN [content |-> IF end = idx THEN None ELSE Some(Join(lines, NL)),
      idx |-> end]

\* markdownlint-disable(?P<lints>( MD\d{3})+)
lint_regex ==
  <<RLit("markdownlint-disable"), ROpen(1),
    RPlus(<<ROpen(2), RLit(" MD"), RRep(<<RDigit>>, 3, 3), RClose(2)>>), RClose(1)>>

SeqToSet(seq) == {seq[i] : i \in 1..Len(seq)}

\* Parser::get_lint_content
get_lint_content(tokens, idx) ==
  IF idx >= Len(tokens) \/ tokens[idx + 1].kind # "Lint"
  THEN Ok([lint |-> None, idx |-> idx])
  ELSE LET text == tokens[idx + 1].content[1]
           captures == Captures(lint_regex, text)
       IN IF captures.ok
          THEN Ok([lint |-> Some(SeqToSet(Split(Trim(Group(text, captures, 1)), " "))),
                   idx |-> idx + 1])
          ELSE Err("Failed to get lint content")

\* \[?([^\]]+)\]?\s*-\s*unreleased(\s+\[yanked\])?$
unreleased_regex ==
  <<ROpt(<<RLit("[")>>), ROpen(1), RPlus(<<RNot({"]"})>>), RClose(1),
    ROpt(<<RLit("]")>>), RStar(<<RSpace>>), RLit("-"), RStar(<<RSpace>>),
    RLit("unreleased"),
    ROpt(<<ROpen(2), RPlus(<<RSpace>>), RLit("[yanked]"), RClose(2)>>), REol>>

\* \[?([^\]]+)\]?\s*-\s*([\d]{4}-[\d]{1,2}-[\d]{1,2})(\s+\[yanked\])?$
release_regex ==
  <<ROpt(<<RLit("[")>>), ROpen(1), RPlus(<<RNot({"]"})>>), RClose(1),
    ROpt(<<RLit("]")>>), RStar(<<RSpace>>), RLit("-"), RStar(<<RSpace>>),
    ROpen(2), RRep(<<RDigit>>, 4, 4), RLit("-"), RRep(<<RDigit>>, 1, 2), RLit("-"),
    RRep(<<RDigit>>, 1, 2), RClose(2),
    ROpt(<<ROpen(3), RPlus(<<RSpace>>), RLit("[yanked]"), RClose(3)>>), REol>>

\* the first arm of the if over a release heading: release_regex matched
DatedHeading(version, date) ==
  IF ~version.ok THEN Err("Failed to parse version: " \o version.e)
  ELSE IF ~date.ok THEN Err("Failed to parse date: " \o date.e)
  ELSE Ok([version |-> Some(version.v), date |-> Some(date.v)])

\* the second arm where unreleased_regex matched
LabelledHeading(label) ==
  IF ~label.ok THEN Err(label.e)
  ELSE Ok([version |-> Some(label.v), date |-> None])

\* HeadingArms without its last arm: a heading of neither format is taken
\* for an Unreleased section
heading_arms_lenient(release, token, release_lc, dated, labelled) ==
  IF dated.ok THEN
    DatedHeading(ParseVersion(Trim(Group(release_lc, dated, 1))),
                 ParseDate(Trim(Group(release_lc, dated, 2))))
  ELSE IF labelled.ok
    THEN LabelledHeading(ParseVersion(Trim(Group(release_lc, labelled, 1))))
  ELSE Ok([version |-> None, date |-> None])

\* the if / else if / else of parse_releases over the heading, dated and
\* labelled being the captures of release_regex and unreleased_regex
\* (the messages' backquotes are written ')
HeadingArms(release, token, release_lc, dated, labelled) ==
  IF dated.ok THEN
    DatedHeading(ParseVersion(Trim(Group(release_lc, dated, 1))),
                 ParseDate(Trim(Group(release_lc, dated, 2))))
  ELSE IF StrContains(release_lc, "unreleased") THEN
    IF labelled.ok
    THEN LabelledHeading(ParseVersion(Trim(Group(release_lc, labelled, 1))))
    ELSE Ok([version |-> None, date |-> None])
  ELSE Err("Failed to parse release token at line: " \o NatToString(token.line)
           \o ", kind: " \o TokenKindName(token.kind)
           \o ", content: '## " \o release
           \o "'. Expected format: '## [VERSION] - [DATE]' or '## [Unreleased]'")

HeadingLowercased(release, token, release_lc) ==
  HeadingArms(release, token, release_lc,
              Captures(release_regex, release_lc),
              Captures(unreleased_regex, release_lc))

\* the heading of a release: Ok([version, date]) or the error
ParseHeading(release, token) == HeadingLowercased(release, token, ToLowercase(release))

\* ReleaseBuilder::add_change
add_change(changes, kind_token, change_token) ==
  LET text == ToLowercase(Join(kind_token.content, NL))
      kind == ChangeKindFromStr(text)
  IN IF ~kind.ok
     THEN Err("Failed to parse change kind at line: " \o NatToString(kind_token.line)
              \o ", content: '" \o text \o "', error: '" \o kind.e \o "'")
     ELSE Ok(ChangesAdd(changes, kind.v, Join(change_token.content, NL)))

\* the inner while loop of parse_releases: the list items under kind_token
RECURSIVE ParseItems(_, _, _, _)
ParseItems(tokens, idx, kind_token, changes) ==
  LET item == get_content(tokens, idx, {"Li"})
      added == add_change(changes, kind_token, Unwrap(item.token))
  IN IF IsNone(item.content) THEN Ok([changes |-> changes, idx |-> idx])
     ELSE IF ~added.ok THEN added
     ELSE ParseItems(tokens, item.idx, kind_token, added.v)

\* the outer while loop over the H3 tokens of a release
RECURSIVE ParseKinds(_, _, _)
ParseKinds(tokens, idx, changes) ==
  LET kind == get_content(tokens, idx, {"H3"})
      items == ParseItems(tokens, kind.idx, Unwrap(kind.token), changes)
  IN IF IsNone(kind.content) THEN Ok([changes |-> changes, idx |-> idx])
     ELSE IF ~items.ok THEN items
     ELSE ParseKinds(tokens, items.v.idx, items.v.changes)

\* the while loop of parse_releases: Ok([releases, idx]) or the first error
RECURSIVE ParseReleasesFrom(_, _, _)

\* releases.push(builder.build()?) and the next turn of the loop
ReleaseBuilt(tokens, releases, heading, yanked, description, kinds) ==
  IF ~kinds.ok THEN kinds
  ELSE ParseReleasesFrom(tokens, kinds.v.idx,
                         Append(releases,
                                NewRelease(heading.version, heading.date, yanked,
                                           description, kinds.v.changes)))

\* builder.description(self.get_text_content()?) and the loops over the H3 tokens
ReleaseBody(tokens, releases, heading, yanked, description) ==
  ReleaseBuilt(tokens, releases, heading, yanked, description.content,
               ParseKinds(tokens, description.idx, NoChanges))

\* one turn of the loop from the parsed heading on
ReleaseHeaded(tokens, idx, releases, release, heading) ==
  IF ~heading.ok THEN heading
  ELSE ReleaseBody(tokens, releases, heading.v,
                   StrContains(ToLowercase(release), "[yanked]"),
                   get_text_content(tokens, idx))

ParseReleasesFrom(tokens, idx, releases) ==
  LET head == get_content(tokens, idx, {"H2"})
  IN IF IsNone(head.content) THEN Ok([releases |-> releases, idx |-> idx])
     ELSE ReleaseHeaded(tokens, head.idx, releases, Unwrap(head.content),
                        ParseHeading(Unwrap(head.content), Unwrap(head.token)))

\* ^\[.*\]\:\s*(http.*?)\/(?:-\/)?compare\/.*$
release_link_regex ==
  <<RBol, RLit("["), RStar(<<RDot>>), RLit("]"), RLit(":"), RStar(<<RSpace>>),
    ROpen(1), RLit("http"), RLazy(<<RDot>>, 0, -1), RClose(1), RLit("/"),
    ROpt(<<RLit("-/")>>), RLit("compare/"), RStar(<<RDot>>), REol>>

\* the url parse_links leaves in the builder: every matching link sets it
InferredUrl(opts, links) ==
  LET hits == {i \in 1..Len(links) : IsMatch(release_link_regex, links[i])}
      last == links[SetMax(hits)]
  IN IF IsSome(opts.url) \/ hits = {} THEN opts.url
     ELSE Some(Group(last, Captures(release_link_regex, last), 1))

\* ChangelogBuilder::links: the parsed links, or the error
BuilderLinks(links) ==
  LET parsed == [i \in 1..Len(links) |-> LinkParse(links[i])]
  IN IF \E i \in 1..Len(parsed) : ~parsed[i].ok THEN Err("Failed to parse links")
     ELSE Ok([i \in 1..Len(parsed) |-> parsed[i].v])

\* the Parser as Parser::parse constructs it, with ChangelogBuilder::default();
\* error holds the Err a step returned, after which the ? operators skip the rest
NewParser(tokens, opts) ==
  [builder |-> [lint |-> None, flag |-> None, title |-> None, description |-> None,
                head |-> "HEAD", footer |-> None, url |-> None, releases |-> <<>>,
                links |-> <<>>, tag_prefix |-> None, compact |-> FALSE],
   tokens |-> tokens,
   opts |-> opts,
   idx |-> 0,
   error |-> None]

Failed(p, message) == [p EXCEPT !.error = Some(message)]

\* a get_content or get_text_content result stored in a field of the builder
Taken(p, field, got) == [p EXCEPT !.builder[field] = got.content, !.idx = got.idx]

\* Parser::parse_opts
parse_opts(p) ==
  [p EXCEPT !.builder.url = p.opts.url,
            !.builder.tag_prefix = p.opts.tag_prefix,
            !.builder.head = IF IsSome(p.opts.head) THEN Unwrap(p.opts.head) ELSE @]

\* the four lines of parse_meta
MetaLint(p, lint) ==
  IF ~lint.ok THEN Failed(p, lint.e)
  ELSE [p EXCEPT !.builder.lint = lint.v.lint, !.idx = lint.v.idx]

MetaFlag(p) ==
  IF IsSome(p.error) THEN p ELSE Taken(p, "flag", get_content(p.tokens, p.idx, {"Flag"}))

MetaTitle(p) ==
  IF IsSome(p.error) THEN p ELSE Taken(p, "title", get_content(p.tokens, p.idx, {"H1"}))

MetaDescription(p) ==
  IF IsSome(p.error) THEN p ELSE Taken(p, "description", get_text_content(p.tokens, p.idx))

\* Parser::parse_meta
parse_meta(p) ==
  IF IsSome(p.error) THEN p
  ELSE MetaDescription(MetaTitle(MetaFlag(MetaLint(p, get_lint_content(p.tokens, p.idx)))))

ReleasesParsed(p, parsed) ==
  IF ~parsed.ok THEN Failed(p, parsed.e)
  ELSE [p EXCEPT !.builder.releases = sort_releases(parsed.v.releases),
                 !.idx = parsed.v.idx]

\* Parser::parse_releases
parse_releases(p) ==
  IF IsSome(p.error) THEN p
  ELSE ReleasesParsed(p, ParseReleasesFrom(p.tokens, p.idx, <<>>))

LinksParsed(p, url, links) ==
  IF ~links.ok THEN Failed(p, links.e)
  ELSE [p EXCEPT !.builder.url = url, !.builder.links = links.v]

LinksJoined(p, links) == LinksParsed(p, InferredUrl(p.opts, links), BuilderLinks(links))

\* Parser::parse_links
parse_links(p, tokens) ==
  IF IsSome(p.error) THEN p
  ELSE LinksJoined(p, [i \in 1..Len(tokens) |-> Join(tokens[i].content, NL)])

\* Parser::parse_footer
parse_footer(p) ==
  IF IsSome(p.error) THEN p ELSE Taken(p, "footer", get_content(p.tokens, p.idx, {"Hr"}))

\* Parser::parse_compact with ChangelogBuilder::compact
parse_compact(p, compact) ==
  IF IsSome(p.error) THEN p
  ELSE [p EXCEPT !.builder.compact = compact,
                 !.builder.lint = IF compact THEN Some(LintsOfCompact) ELSE None]

\* build without the comparison of the cursor with the number of tokens
build_unchecked(p) ==
  IF IsSome(p.error) THEN [status |-> "err", error |-> Unwrap(p.error)]
  ELSE [status |-> "ok", changelog |-> p.builder]

\* Parser::build
build(p) ==
  IF IsSome(p.error) THEN [status |-> "err", error |-> Unwrap(p.error)]
  ELSE IF p.idx # Len(p.tokens) THEN [status |-> "err", error |-> "Unexpected tokens"]
  ELSE [status |-> "ok", changelog |-> p.builder]

\* Parser::parse from the result of tokenize on
ParseTokens(lexed, opts) ==
  IF lexed.panic THEN [status |-> "panic"]
  ELSE build(parse_compact(
               parse_footer(
                 parse_links(
                   parse_releases(
                     parse_meta(
                       parse_opts(
                         NewParser(SelectSeq(lexed.tokens, LAMBDA t : t.kind # "Link"),
                                   opts)))),
                   SelectSeq(lexed.tokens, LAMBDA t : t.kind = "Link"))),
               lexed.compact))

\* Parser::parse: [status |-> "ok", changelog], [status |-> "err", error] or
\* [status |-> "panic"]
Parse(markdown, opts) == ParseTokens(tokenize(markdown), opts)

(***************************************************************************)
(* The state: one Changelog value and the file it is read from and saved   *)
(* to, with the history the properties speak about.                        *)
(***************************************************************************)
VARIABLES
  changelog,   \* Option<Changelog>: the value the caller holds
  file,        \* Option<String>: the file at the path (None: no such file)
  before,      \* the file as it was when the last save_to_file began
  op,          \* the last operation: "init", "build", "parse", "save", ...
  outcome,     \* how it ended: "ok", "err" (an Err returned) or "panic"
  input,       \* Option<String>: the text the session started from
  lexed,       \* Option: what tokenize returned to the last Parser::parse
  failure,     \* Option<String>: the Err the last Parser::parse returned
  args,        \* the arguments of the last add_release or add_link call
  opts,        \* the ChangelogParseOptions of the session
  rounds       \* the number of save_to_file calls so far

vars == <<changelog, file, before, op, outcome, input, lexed, failure, args, opts, rounds>>

\* ---- bounds ----
MaxReleases == 3    \* releases in one Changelog
MaxInitial == 2     \* releases handed to ChangelogBuilder::releases
MaxLinks == 2       \* add_link calls
MaxRounds == 2      \* parse / save rounds over one file
MaxBlank == 3       \* consecutive blank lines in an input text

\* ---- the values the operations are called with ----
RepoUrl == "https://github.com/o/r"
OldFile == "# Old\n"

Date1 == <<2024, 4, 28>>
Date2 == <<2024, 5, 18>>
Date3 == <<2024, 5, 20>>
Version(major, minor, patch) == [major |-> major, minor |-> minor, patch |-> patch]

RelA == NewRelease(Some(Version(0, 1, 0)), Some(Date1), FALSE, None,
                   ChangesAdd(NoChanges, "added", "Initial release"))
RelB == NewRelease(Some(Version(0, 1, 1)), Some(Date2), FALSE, None,
                   ChangesAdd(NoChanges, "fixed", "Error readability"))
\* Release::builder().build(): the Unreleased section
RelU == NewRelease(None, None, FALSE, None, NoChanges)
RelU2 == NewRelease(None, None, FALSE, None,
                    ChangesAdd(NoChanges, "added", "New feature"))
\* a version without a date, a date without a version
RelV == NewRelease(Some(Version(0, 2, 0)), None, FALSE, None, NoChanges)
RelN == NewRelease(None, Some(Date3), FALSE, None, NoChanges)

ReleaseSet == {RelA, RelB, RelU, RelU2, RelV, RelN}

\* url, tag_prefix, head
Configs ==
  {<<None, None, "HEAD">>,
   <<Some(RepoUrl), None, "HEAD">>,
   <<Some(RepoUrl), Some("v"), "master">>}

LintSet == {"MD022", "MD032"}

LinkArgs ==
  {<<"[docs]:", "https://example.com">>, <<"api", "https://example.org">>,
   <<"[]:", "https://example.com">>, <<"docs", "">>}

SeqsUpTo(S, n) == UNION {[1..k -> S] : k \in 0..n}

\* ---- the API session: build a Changelog, change it, save it ----
Init ==
  /\ changelog = None
  /\ file \in {None, Some(OldFile)}
  /\ before = None
  /\ op = "init"
  /\ outcome = "ok"
  /\ input = None
  /\ lexed = None
  /\ failure = None
  /\ args = <<>>
  /\ opts = DefaultOptions
  /\ rounds = 0

Held == IsSome(changelog) /\ op # "save"

Call(name, c) ==
  /\ changelog' = Some(c)
  /\ op' = name
  /\ outcome' = "ok"
  /\ UNCHANGED <<file, before, input, lexed, failure, args, opts, rounds>>

\* ChangelogBuilder::default().url(..).tag_prefix(..).head(..).compact(..)
\*   .releases(..).build()
Build ==
  /\ IsNone(changelog) /\ op = "init" /\ IsNone(input)
  /\ \E cfg \in Configs, compact \in BOOLEAN, rs \in SeqsUpTo(ReleaseSet, MaxInitial) :
       Call("build", NewChangelog(cfg[1], cfg[2], cfg[3], rs, compact))

\* ChangelogBuilder::default().url(..).tag_prefix(..).head(..).compact(..)
\*   .build(): a Changelog without releases
BuildEmpty ==
  /\ IsNone(changelog) /\ op = "init" /\ IsNone(input)
  /\ \E cfg \in Configs, compact \in BOOLEAN :
       Call("build", NewChangelog(cfg[1], cfg[2], cfg[3], <<>>, compact))

AddRelease ==
  /\ Held /\ Len(Unwrap(changelog).releases) < MaxReleases
  /\ \E r \in ReleaseSet :
       /\ changelog' = Some(add_release(Unwrap(changelog), r))
       /\ args' = <<r>>
  /\ op' = "add_release"
  /\ outcome' = "ok"
  /\ UNCHANGED <<file, before, input, lexed, failure, opts, rounds>>

SetCompact == Held /\ Call("set_compact", set_compact(Unwrap(changelog)))

UnsetCompact == Held /\ Call("unset_compact", unset_compact(Unwrap(changelog)))

DisableLint ==
  /\ Held
  /\ \E lint \in LintSet : Call("disable_lint", disable_lint(Unwrap(changelog), lint))

EnableLint ==
  /\ Held
  /\ \E lint \in LintSet : Call("enable_lint", enable_lint(Unwrap(changelog), lint))

AddLink ==
  /\ Held /\ Len(Unwrap(changelog).links) < MaxLinks
  /\ \E a \in LinkArgs :
       /\ changelog' = Some(add_link(Unwrap(changelog), a[1], a[2]))
       /\ args' = a
  /\ op' = "add_link"
  /\ outcome' = "ok"
  /\ UNCHANGED <<file, before, input, lexed, failure, opts, rounds>>

\* Changelog::save_to_file: the file is opened with create and truncate, then
\* file_contents() is evaluated (and may panic), then written
SaveToFile ==
  /\ IsSome(changelog) /\ op # "save" /\ rounds < MaxRounds
  /\ \E contents \in {file_contents(Unwrap(changelog))} :
       /\ file' = IF contents.ok THEN Some(contents.v) ELSE Some("")
       /\ outcome' = IF contents.ok THEN "ok" ELSE "panic"
  /\ before' = file
  /\ op' = "save"
  /\ rounds' = rounds + 1
  /\ UNCHANGED <<changelog, input, lexed, failure, args, opts>>

\* a session over the release list
Next ==
  \/ Build
  \/ AddRelease
  \/ SaveToFile

Spec == Init /\ [][Next]_vars

\* a session over the settings: compact mode, lint rules, links
SettingsNext ==
  \/ BuildEmpty
  \/ SetCompact
  \/ UnsetCompact
  \/ DisableLint
  \/ EnableLint
  \/ AddLink
  \/ SaveToFile

SettingsSpec == Init /\ [][SettingsNext]_vars

(***************************************************************************)
(* Properties of the release list and of the compare links                 *)
(***************************************************************************)
Held_releases == IF IsSome(changelog) THEN Unwrap(changelog).releases ELSE <<>>

HasDate(r) == IsSome(r.date)
HasVersion(r) == IsSome(r.version)

\* the index of the nearest release after index i that has a date, 0 if none
PreviousDated(rs, i) ==
  LET later == {j \in (i + 1)..Len(rs) : HasDate(rs[j])}
  IN IF later = {} THEN 0 ELSE SetMin(later)

\* a release is looked up by value: its position is that of the first release equal to it
Positions(rs) == {i \in 1..Len(rs) : \A j \in 1..(i - 1) : rs[j] # rs[i]}

\* tag(x): the tag prefix, if any, followed by the version string of x
TagOf(c, r) ==
  (IF IsSome(c.tag_prefix) THEN Unwrap(c.tag_prefix) ELSE "")
    \o VersionToString(Unwrap(r.version))

\* the link the formatter derives for the release at index i
LinkAt(c, i) == ReleaseCompareLink(c.releases[i], c)

\* C2: after a build and after every add_release, any two stored releases
\* that both have a date are in descending date order: for i < j,
\* date[i] >= date[j].
C2_SortedByDate ==
  \A j \in 1..Len(Held_releases) : \A i \in 1..(j - 1) :
    (HasDate(Held_releases[i]) /\ HasDate(Held_releases[j]))
      => ~DateLess(Held_releases[i].date, Held_releases[j].date)

\* add_release put the oldest of three dated releases, inserted at the front, last
C2_Witness ==
  /\ op = "add_release"
  /\ Held_releases = <<RelN, RelB, RelA>>

\* C3: if exactly one release has no date, it is at index 0 of the list
\* after construction and after every add_release, whatever its version.
C3_DatelessPinned ==
  Cardinality({i \in 1..Len(Held_releases) : ~HasDate(Held_releases[i])}) = 1
    => ~HasDate(Held_releases[1])

C5_CompareLinkOfUnreleased ==
  IsSome(changelog) =>
    LET c == Unwrap(changelog)
        rs == c.releases
    IN \A i \in Positions(rs) :
         LET p == PreviousDated(rs, i)
         IN (/\ IsSome(c.url)
             /\ ~HasVersion(rs[i]) /\ ~HasDate(rs[i])
             /\ p # 0 /\ HasVersion(rs[IF p = 0 THEN i ELSE p]))
              => LinkAt(c, i) =
                   Ok(Some(NewLink("Unreleased",
                                   GetCompareUrl(Unwrap(c.url), TagOf(c, rs[p]), c.head))))

\* Unreleased above 0.1.1, head "master": Unreleased compares v0.1.1...master
C5_Witness ==
  /\ IsSome(changelog)
  /\ Unwrap(changelog).head = "master"
  /\ Held_releases = <<RelU2, RelB, RelA>>
  /\ LinkAt(Unwrap(changelog), 1) =
       Ok(Some(NewLink("Unreleased", GetCompareUrl(RepoUrl, "v0.1.1", "master"))))

RequiresLink(rs, i) ==
  (HasVersion(rs[i]) /\ HasDate(rs[i])) \/ PreviousDated(rs, i) # 0

\* C7: without a repository URL, the link of every release that requires
\* one fails with "Missing repo URL", rendering fails and yields no text,
\* and a save of the document ends in that failure.
C7_MissingRepoUrl ==
  IsSome(changelog) =>
    LET c == Unwrap(changelog)
        rs == c.releases
    IN (IsNone(c.url) /\ \E i \in 1..Len(rs) : RequiresLink(rs, i))
         => /\ \A i \in 1..Len(rs) :
                 RequiresLink(rs, i) => LinkAt(c, i) = Err("Missing repo URL")
            /\ ~ChangelogToString(c).ok
            /\ ~file_contents(c).ok
            /\ op = "save" => outcome = "panic"

\* a save without a URL of Unreleased above 0.1.0: both require a link
C7_Witness ==
  /\ op = "save"
  /\ outcome = "panic"
  /\ IsNone(Unwrap(changelog).url)
  /\ Held_releases = <<RelU, RelA>>
  /\ ChangelogToString(Unwrap(changelog)) =
       Err("Failed to get compare link: Missing repo URL")

\* C8: a document without a repository URL renders when it has no releases
\* or when none of its releases has a version and no dated release follows
\* any of them: each such release yields no link and no error, the text has
\* no link line, and a save of the document succeeds.
C8_RendersWithoutUrl ==
  IsSome(changelog) =>
    LET c == Unwrap(changelog)
        rs == c.releases
    IN (/\ IsNone(c.url)
        /\ \A i \in 1..Len(rs) : ~HasVersion(rs[i]) /\ PreviousDated(rs, i) = 0)
         => /\ \A i \in 1..Len(rs) : LinkAt(c, i) = Ok(None)
            /\ ChangelogToString(c).ok
            /\ file_contents(c).ok
            /\ c.links = <<>> => ~StrContains(file_contents(c).v, "]: ")
            /\ op = "save" => (outcome = "ok" /\ file = Some(file_contents(c).v))

\* a saved document without a URL holding two Unreleased sections and no other release
C8_Witness ==
  /\ op = "save"
  /\ outcome = "ok"
  /\ IsNone(Unwrap(changelog).url)
  /\ Held_releases = <<RelU2, RelU>>
  /\ LinkAt(Unwrap(changelog), 1) = Ok(None)
  /\ StrContains(Unwrap(file), "## [Unreleased]")

\* C9: a save either writes the complete rendered text or, when rendering
\* fails, leaves the file as it was: not created, truncated or partly written.
C9_NoPartialOutput ==
  op = "save" =>
    IF outcome = "ok"
    THEN file = Some(file_contents(Unwrap(changelog)).v)
    ELSE file = before

(***************************************************************************)
(* The file session: a text is parsed from the file and saved back, round  *)
(* after round.                                                            *)
(***************************************************************************)
\* the example of the documentation of Changelog::parse
DocExample == "# Changelog\n## 0.1.0 - 2024-04-28\n- Initial release\n"

\* k blank lines between two lines of text
RECURSIVE Newlines(_)
Newlines(k) == IF k = 0 THEN "" ELSE NL \o Newlines(k - 1)

Headers ==
  {"# Changelog\n", "# Changelog\n\n",
   "<!-- markdownlint-disable MD013 -->\n# Changelog\n\n"}

Descriptions ==
  {"", "Some text\n\n", "- Initial notes\n\n"}
    \cup {"first" \o Newlines(k + 1) \o "second\n\n" : k \in 1..MaxBlank}

ReleaseTexts ==
  {"",
   "## [Unreleased]\n\n### Added\n\n- New feature\n\n",
   "## [0.1.1] - 2024-05-18\n\n### Fixed\n\n- Error readability\n\n"
     \o "## [0.1.0] - 2024-04-28 [YANKED]\n\n### Added\n\n- Initial release\n  of the crate\n\n",
   "## [Unreleased]\n\n## [0.1.0] - 2024-04-28\n\nFirst release\n\n### Added\n\n- Initial release\n\n",
   "## 0.1.0 - 2024-04-28\n- Initial release\n"}

LinkTexts ==
  {"",
   "[docs]: https://example.com\n",
   "[0.1.1]: https://github.com/o/r/compare/v0.1.0...v0.1.1\n"
     \o "[0.1.0]: https://github.com/o/r/releases/tag/v0.1.0\n"}

Inputs ==
  {h \o d \o r \o l : h \in Headers, d \in Descriptions, r \in ReleaseTexts, l \in LinkTexts}

OptionSet == {DefaultOptions, ParseOptions(Some(RepoUrl), Some("v"), Some("master"))}

ParseInit ==
  /\ changelog = None
  /\ input \in {Some(text) : text \in Inputs}
  /\ file = input
  /\ lexed = None
  /\ failure = None
  /\ args = <<>>
  /\ before = None
  /\ op = "init"
  /\ outcome = "ok"
  /\ opts \in OptionSet
  /\ rounds = 0

\* Changelog::parse_from_file(path, Some(opts))
ParseFromFile ==
  /\ IsSome(input) /\ op \in {"init", "save"} /\ outcome = "ok" /\ rounds < MaxRounds
  /\ \E scanned \in {IF IsSome(file) THEN Some(tokenize(Unwrap(file))) ELSE None} :
       /\ lexed' = scanned
       /\ \E parsed \in {IF IsSome(scanned) THEN ParseTokens(Unwrap(scanned), opts)
                         ELSE [status |-> "err", error |-> "No such file or directory"]} :
            /\ changelog' = IF parsed.status = "ok" THEN Some(parsed.changelog) ELSE None
            /\ outcome' = parsed.status
            /\ failure' = IF parsed.status = "err" THEN Some(parsed.error) ELSE None
  /\ op' = "parse"
  /\ UNCHANGED <<file, before, input, args, opts, rounds>>

ParseNext ==
  \/ ParseFromFile
  \/ SaveToFile

ParseSpec == ParseInit /\ [][ParseNext]_vars

\* C1: a file written by save_to_file, parsed with the same options and
\* saved again, is reproduced byte for byte: the second parse succeeds and
\* the second save leaves the text of the first.
C1_RoundTrip ==
  /\ (op = "parse" /\ rounds >= 1) => outcome = "ok"
  /\ (op = "save" /\ rounds >= 2 /\ outcome = "ok") => file = before

\* the Changelog parsed from the example of the documentation
Parsed_example == input = Some(DocExample) /\ op = "parse" /\ rounds = 0

\* C10 as stated: parsing the example succeeds and yields exactly one
\* release, version 0.1.0 of 2024-04-28, with exactly one Added entry
\* "Initial release" made of the list item under the heading.
C10_ListItemIsAddedEntry ==
  Parsed_example =>
    /\ outcome = "ok"
    /\ Len(Held_releases) = 1
    /\ Held_releases[1].version = Some(Version(0, 1, 0))
    /\ Held_releases[1].date = Some(Date1)
    /\ Held_releases[1].changes = ChangesAdd(NoChanges, "added", "Initial release")

\* C10: parsing the example succeeds and yields exactly one release,
\* version 0.1.0 of 2024-04-28; the list item under the heading is its
\* description "- Initial release" and the release has no change entry.
C10_ListItemIsDescription ==
  Parsed_example =>
    /\ outcome = "ok"
    /\ Len(Held_releases) = 1
    /\ Held_releases[1].version = Some(Version(0, 1, 0))
    /\ Held_releases[1].date = Some(Date1)
    /\ Held_releases[1].description = Some("- Initial release")
    /\ ChangesIsEmpty(Held_releases[1].changes)
    /\ Held_releases[1].changes = NoChanges

C10_Witness ==
  /\ Parsed_example
  /\ outcome = "ok"
  /\ Len(Held_releases) = 1
  /\ Unwrap(changelog).compact

(***************************************************************************)
(* The draft session: texts that leave the grammar in one place or         *)
(* another are parsed from the file (and saved and parsed again when the   *)
(* parse succeeds).                                                        *)
(***************************************************************************)
MaxItems == 2       \* list items under one change-kind heading of a draft

GitHubUrl == "https://github.com/o/r"
GitLabUrl == "https://gitlab.com/o/r"

\* k list items and the blank line after the block
RECURSIVE Items(_)
Items(k) == IF k = 0 THEN NL ELSE "- item\n" \o Items(k - 1)

\* what stands before the title: nothing, a lint directive, a flag before a
\* lint directive, a lint directive before a flag
Prologues ==
  {"",
   "<!-- markdownlint-disable MD013 MD041 -->\n",
   "<!-- draft -->\n<!-- markdownlint-disable MD013 -->\n",
   "<!-- markdownlint-disable MD013 -->\n<!-- draft -->\n"}

\* the title followed by a blank line, and by the next line at once
Titles == {"# Changelog\n\n", "# Changelog\n"}

Bodies ==
  {"", "Some text\n\n", "## NotAVersion\n\n",
   "### Added\n\n- item\n\n",
   "- notes\n  indented\nplain\n\nafter a blank line\n\n",
   "## [Unreleased] [YANKED]\n\n### Added\n\n- item\n\n",
   "## [0.1.0] - 2024-04-28 [YANKED]\n\n### Added\n\n- item\n\n",
   "# Second\nText\n\n"}
    \cup {"## [Unreleased]\n\n### Unknown\n\n" \o Items(k) : k \in 0..MaxItems}
    \cup {"## [Unreleased]\n\n### Added\n\n" \o Items(k) : k \in 0..MaxItems}

Tails ==
  {"",
   "---\n",
   "---\nfooter text\n",
   "[docs]:\n  https://example.com\n",
   "[0.1.1]: " \o GitHubUrl \o "/compare/v0.1.0...v0.1.1\n"
     \o "[0.1.0]: " \o GitLabUrl \o "/-/compare/v0.0.1...v0.1.0\n"}

Drafts ==
  {""} \cup {p \o t \o b \o l : p \in Prologues, t \in Titles, b \in Bodies, l \in Tails}

DraftInit ==
  /\ changelog = None
  /\ input \in {Some(text) : text \in Drafts}
  /\ file = input
  /\ lexed = None
  /\ failure = None
  /\ args = <<>>
  /\ before = None
  /\ op = "init"
  /\ outcome = "ok"
  /\ opts \in OptionSet
  /\ rounds = 0

DraftSpec == DraftInit /\ [][ParseNext]_vars

\* the last operation parsed the file, and tokenize returned its pair
Parsing == op = "parse" /\ IsSome(lexed)
Lexed == Parsing /\ ~Unwrap(lexed).panic

\* the lines of the text as the tokenizer numbers them
LinesOf(text) == Split(Trim(text), NL)

\* C11: tokenize never fails: for every text, the empty text and a text whose
\* last non-blank line is a first-level heading included, it returns its pair
\* of compact flag and tokens; no parse ends in an abort.
C11_TokenizeNeverFails ==
  Parsing => (~Unwrap(lexed).panic /\ outcome # "panic")

\* the first line of the text that is a first-level heading (0: none)
FirstH1(lines) ==
  LET hits == {i \in 1..Len(lines) : StartsWith(lines[i], PREFIX_H1)}
  IN IF hits = {} THEN 0 ELSE SetMin(hits)

\* the line right after the first first-level heading is there and not blank
FirstH1Compact(lines) ==
  /\ FirstH1(lines) # 0
  /\ FirstH1(lines) < Len(lines)
  /\ Trim(lines[FirstH1(lines) + 1]) # ""

\* C12: the compact flag returned by tokenize is true exactly when the line
\* right after the first first-level heading is not blank; a later
\* first-level heading and its successor never change the flag.
C12_CompactOfFirstH1 ==
  Lexed => (Unwrap(lexed).compact <=> FirstH1Compact(LinesOf(Unwrap(file))))

(***************************************************************************)
(* Properties of the rendered text                                         *)
(***************************************************************************)
\* the text the last successful save_to_file wrote, line by line
Saved == op = "save" /\ outcome = "ok" /\ IsSome(changelog) /\ IsSome(file)
SavedLines == Split(TrimEnd(Unwrap(file)), NL)

IsHeadingLine(line) ==
  StartsWith(line, PREFIX_H1) \/ StartsWith(line, PREFIX_H2) \/ StartsWith(line, PREFIX_H3)
IsItemLine(line) == StartsWith(line, "- ") \/ StartsWith(line, "  ")

\* line i is a heading that another line follows
HeadingsIn(lines) == {i \in 1..(Len(lines) - 1) : IsHeadingLine(lines[i])}
\* line i is the last line of a list block that another line follows
BlockEndsIn(lines) ==
  {i \in 1..(Len(lines) - 1) : IsItemLine(lines[i]) /\ ~IsItemLine(lines[i + 1])}

\* C13: when the Changelog is compact, the rendered text has no blank line
\* after any heading (title, release, change kind) and none after a list
\* block or between change-kind sections; when it is not compact, those
\* blank separator lines are present.
C13_CompactRendering ==
  Saved =>
    IF Unwrap(changelog).compact
    THEN \A i \in HeadingsIn(SavedLines) \cup BlockEndsIn(SavedLines) :
           SavedLines[i + 1] # ""
    ELSE \A i \in HeadingsIn(SavedLines) \cup BlockEndsIn(SavedLines) :
           SavedLines[i + 1] = ""

(***************************************************************************)
(* Properties of the parser over the drafts                                *)
(***************************************************************************)
\* the tokens the Parser walks over (the Link tokens are set apart) and
\* their kinds
Walked == SelectSeq(Unwrap(lexed).tokens, LAMBDA t : t.kind # "Link")
KindsOf(tokens) == [i \in 1..Len(tokens) |-> tokens[i].kind]

\* the grammar over the kinds, as a cursor that counts the tokens taken:
\* Lint? Flag? H1? (P | Li)* (H2 (P | Li)* (H3 Li*)*)* Hr?
SkipOne(kinds, idx, kind) ==
  IF idx < Len(kinds) /\ kinds[idx + 1] = kind THEN idx + 1 ELSE idx

SkipRun(kinds, idx, of) ==
  LET stop == {i \in (idx + 1)..Len(kinds) : kinds[i] \notin of}
  IN IF stop = {} THEN Len(kinds) ELSE SetMin(stop) - 1

RECURSIVE SkipSections(_, _)
SkipSections(kinds, idx) ==
  IF SkipOne(kinds, idx, "H3") = idx THEN idx
  ELSE SkipSections(kinds, SkipRun(kinds, idx + 1, {"Li"}))

RECURSIVE SkipReleases(_, _)
SkipReleases(kinds, idx) ==
  IF SkipOne(kinds, idx, "H2") = idx THEN idx
  ELSE SkipReleases(kinds, SkipSections(kinds, SkipRun(kinds, idx + 1, {"P", "Li"})))

SkipMeta(kinds) ==
  SkipRun(kinds,
          SkipOne(kinds, SkipOne(kinds, SkipOne(kinds, 0, "Lint"), "Flag"), "H1"),
          {"P", "Li"})

GrammarEnd(kinds) == SkipOne(kinds, SkipReleases(kinds, SkipMeta(kinds)), "Hr")

\* a release heading that is neither dated nor unreleased
IsMalformedHeading(text) ==
  /\ ~IsMatch(release_regex, ToLowercase(text))
  /\ ~StrContains(ToLowercase(text), "unreleased")

\* the first release heading of the walked tokens (0: none)
FirstH2(tokens) ==
  LET hits == {i \in 1..Len(tokens) : tokens[i].kind = "H2"}
  IN IF hits = {} THEN 0 ELSE SetMin(hits)

\* the walked tokens begin with a well-formed head and a malformed release
\* heading is the token after it
MalformedHeadingMet(tokens) ==
  /\ FirstH2(tokens) # 0
  /\ SkipMeta(KindsOf(tokens)) = FirstH2(tokens) - 1
  /\ IsMalformedHeading(Join(tokens[FirstH2(tokens)].content, NL))

HeadingError(line, text) ==
  "Failed to parse release token at line: " \o NatToString(line)
    \o ", kind: Heading 2, content: '## " \o text
    \o "'. Expected format: '## [VERSION] - [DATE]' or '## [Unreleased]'"

\* C14: a release heading whose lower-cased text neither matches the dated
\* pattern nor contains "unreleased" makes the parse fail with an error that
\* names the source line of the heading, its kind and its raw text; no
\* Changelog is returned.
C14_MalformedHeading ==
  (Lexed /\ MalformedHeadingMet(Walked)) =>
    /\ outcome = "err"
    /\ changelog = None
    /\ \E n \in 1..Len(LinesOf(Unwrap(file))) :
         \E text \in {Substring(LinesOf(Unwrap(file))[n], 2)} :
           /\ StartsWith(LinesOf(Unwrap(file))[n], PREFIX_H2)
           /\ IsMalformedHeading(text)
           /\ failure = Some(HeadingError(n, text))

C14_Witness ==
  /\ op = "parse"
  /\ file = Some("# Changelog\n\n## NotAVersion\n\n")
  /\ outcome = "err"
  /\ changelog = None
  /\ failure = Some("Failed to parse release token at line: 3, kind: Heading 2, content: '## NotAVersion'. Expected format: '## [VERSION] - [DATE]' or '## [Unreleased]'")

\* the change-kind headings of the walked tokens whose lower-cased text is
\* not one of the six kinds
UnknownKinds(tokens) ==
  {i \in 1..Len(tokens) :
     /\ tokens[i].kind = "H3"
     /\ ToLowercase(Join(tokens[i].content, NL)) \notin ChangeKindSet}

\* the walked tokens follow the grammar, every release heading is well
\* formed, and a change-kind heading of a release has an unknown name
UnknownKindMet(tokens) ==
  /\ GrammarEnd(KindsOf(tokens)) = Len(tokens)
  /\ \A i \in 1..Len(tokens) :
       tokens[i].kind = "H2" => ~IsMalformedHeading(Join(tokens[i].content, NL))
  /\ UnknownKinds(tokens) # {}

\* the list items that follow the change-kind heading i
ItemsUnder(tokens, i) == SkipRun(KindsOf(tokens), i, {"Li"}) - i

KindError(token) ==
  "Failed to parse change kind at line: " \o NatToString(token.line)
    \o ", content: '" \o ToLowercase(Join(token.content, NL)) \o "'"

\* C15: a change-kind heading of a release whose lower-cased text is not one
\* of added, changed, deprecated, removed, fixed, security makes the parse
\* fail with an error naming its line and content, however many list items
\* (none included) follow it.
C15_UnknownKind ==
  (Lexed /\ UnknownKindMet(Walked)) =>
    /\ outcome = "err"
    /\ changelog = None
    /\ IsSome(failure)
    /\ StartsWith(Unwrap(failure), KindError(Walked[SetMin(UnknownKinds(Walked))]))

(***************************************************************************)
(* Properties of the settings                                              *)
(***************************************************************************)
Held_links == IF IsSome(changelog) THEN Unwrap(changelog).links ELSE <<>>

\* the first line of the saved text
SavedHead == Split(Unwrap(file), NL)[1]

\* C16: in every state reached from a built Changelog through compact() of
\* the builder, set_compact, unset_compact, disable_lint and enable_lint, a
\* compact Changelog has both MD022 and MD032 in its set of disabled lints,
\* and its saved text begins with the markdownlint-disable comment that
\* names both.
C16_CompactDisablesLints ==
  (IsSome(changelog) /\ Unwrap(changelog).compact) =>
    /\ IsSome(Unwrap(changelog).lint)
    /\ {"MD022", "MD032"} \subseteq Unwrap(Unwrap(changelog).lint)
    /\ Saved =>
         /\ StartsWith(SavedHead, "<!-- markdownlint-disable ")
         /\ StrContains(SavedHead, "MD022")
         /\ StrContains(SavedHead, "MD032")

\* C17: add_link(anchor, url) with an anchor that is not empty once every
\* "[", "]" and ":" is removed and a url that is not empty appends exactly
\* one Link of the stripped anchor and the url at the end of links; with
\* either empty, links is left as it was; in both cases the call returns
\* normally.
C17_AddLink ==
  [][op' = "add_link" =>
       /\ outcome' = "ok"
       /\ IsSome(changelog')
       /\ IF RemoveChars(args'[1], {"[", "]", ":"}) # "" /\ args'[2] # ""
          THEN Held_links' =
                 Append(Held_links,
                        [anchor |-> RemoveChars(args'[1], {"[", "]", ":"}),
                         url |-> args'[2]])
          ELSE Held_links' = Held_links]_vars

\* a second Link was appended behind the first, the anchor stripped
C17_Witness ==
  /\ op = "add_link"
  /\ args = <<"[docs]:", "https://example.com">>
  /\ Held_links = <<[anchor |-> "api", url |-> "https://example.org"],
                    [anchor |-> "docs", url |-> "https://example.com"]>>

(***************************************************************************)
(* Properties of the grammar                                               *)
(***************************************************************************)
\* no step of the grammar rejects the content of a token it takes: the lint
\* directive lists its rules, every release heading parses, and no unknown
\* change-kind heading has a list item
StepsPass(tokens) ==
  \A i \in 1..Len(tokens) :
    /\ tokens[i].kind = "Lint" => IsMatch(lint_regex, tokens[i].content[1])
    /\ tokens[i].kind = "H2" => ParseHeading(Join(tokens[i].content, NL), tokens[i]).ok
    /\ i \in UnknownKinds(tokens) => ItemsUnder(tokens, i) = 0

\* every Link token set apart gives a Link
LinksPass ==
  \A i \in 1..Len(Unwrap(lexed).tokens) :
    Unwrap(lexed).tokens[i].kind = "Link" =>
      LinkParse(Join(Unwrap(lexed).tokens[i].content, NL)).ok

\* C18: the parser takes a token only when its kind matches the step of the
\* grammar the forward-only cursor is at (lint, flag, H1, description,
\* releases with H3 and list items, footer, in this order); the parse
\* succeeds only if the cursor ends at the number of tokens that are not
\* links, and a token left over (a flag before the lint directive, an H3
\* before any H2, a second H1) makes it fail with the unexpected-tokens error.
C18_GrammarCompletion ==
  Lexed =>
    /\ outcome = "ok" => GrammarEnd(KindsOf(Walked)) = Len(Walked)
    /\ GrammarEnd(KindsOf(Walked)) < Len(Walked) =>
         /\ outcome = "err"
         /\ changelog = None
         /\ (StepsPass(Walked) /\ LinksPass) => failure = Some("Unexpected tokens")

\* a flag before the lint directive: the directive and what follows it are
\* left over
C18_Witness ==
  /\ Lexed
  /\ file = Some("<!-- draft -->\n<!-- markdownlint-disable MD013 -->\n# Changelog\n\nSome text\n\n")
  /\ KindsOf(Walked) = <<"Flag", "Lint", "H1", "P">>
  /\ GrammarEnd(KindsOf(Walked)) = 1
  /\ outcome = "err"
  /\ failure = Some("Unexpected tokens")

\* the rule codes a lint directive lists after markdownlint-disable
DirectiveCodes(text) ==
  SeqToSet(SelectSeq(Split(SubSeq(text, Len("markdownlint-disable") + 1, Len(text)), " "),
                     LAMBDA code : code # ""))

\* the first token of the parsed text is a lint directive that lists rules
DirectiveFirst ==
  /\ Lexed
  /\ outcome = "ok"
  /\ Len(Walked) > 0
  /\ Walked[1].kind = "Lint"
  /\ DirectiveCodes(Walked[1].content[1]) # {}

\* C19: after a successful parse of a text whose first token is a lint
\* directive listing rule codes after markdownlint-disable, the set of
\* disabled lints of the Changelog is exactly the set of these codes,
\* whether the document is compact or not.
C19_LintDirective ==
  DirectiveFirst =>
    Unwrap(changelog).lint = Some(DirectiveCodes(Walked[1].content[1]))

\* the urls of the Link tokens, in the order of the text
LinkUrls ==
  LET links == SelectSeq(Unwrap(lexed).tokens, LAMBDA t : t.kind = "Link")
  IN [i \in 1..Len(links) |->
        SubSeq(links[i].content[1], Find(links[i].content[1], ": ") + 2,
               Len(links[i].content[1]))]

\* a url of the shape <base>/compare/... or <base>/-/compare/..., and its base
IsCompareUrl(url) == StartsWith(url, "http") /\ Find(url, "/compare/") > 1

CompareBase(url) ==
  LET head == SubSeq(url, 1, Find(url, "/compare/") - 1)
  IN IF Len(head) >= 2 /\ SubSeq(head, Len(head) - 1, Len(head)) = "/-"
     THEN SubSeq(head, 1, Len(head) - 2)
     ELSE head

CompareUrls == SelectSeq(LinkUrls, IsCompareUrl)

\* C20: when the parse options give no repository URL, the URL of the
\* Changelog is the base of the first Link token, in the order of the text,
\* whose url has the compare shape, and later such links do not change it;
\* when the options give a URL, no link replaces it.
C20_UrlInferredFromFirstLink ==
  (Lexed /\ outcome = "ok") =>
    IF IsSome(opts.url) THEN Unwrap(changelog).url = opts.url
    ELSE IF CompareUrls = <<>> THEN Unwrap(changelog).url = None
    ELSE Unwrap(changelog).url = Some(CompareBase(CompareUrls[1]))

(***************************************************************************)
(* Properties of the footer                                                *)
(***************************************************************************)
EndsWith(s, p) == Len(s) >= Len(p) /\ SubSeq(s, Len(s) - Len(p) + 1, Len(s)) = p

\* the horizontal rule of the walked tokens that content follows (0: none):
\* the grammar takes every token before it and only paragraphs follow it
FooterRule(tokens) ==
  LET hits == {i \in 1..(Len(tokens) - 1) :
                 /\ tokens[i].kind = "Hr"
                 /\ SkipReleases(KindsOf(tokens), SkipMeta(KindsOf(tokens))) = i - 1
                 /\ \A j \in (i + 1)..Len(tokens) : tokens[j].kind = "P"}
  IN IF hits = {} THEN 0 ELSE SetMin(hits)

\* the text of the tokens after token i
ContentAfter(tokens, i) ==
  Join([j \in 1..(Len(tokens) - i) |-> Join(tokens[i + j].content, NL)], NL)

\* C21: when the tokens that are not links end with a horizontal rule
\* followed by remaining content, the parse succeeds and the footer of the
\* Changelog is the text of that content; the rendered text ends with the
\* footer after a line of three dashes.
C21_Footer ==
  /\ (Lexed /\ StepsPass(Walked) /\ FooterRule(Walked) # 0) =>
       /\ outcome = "ok"
       /\ IsSome(changelog)
       /\ Unwrap(changelog).footer = Some(ContentAfter(Walked, FooterRule(Walked)))
  /\ (Saved /\ IsSome(Unwrap(changelog).footer)) =>
       EndsWith(Unwrap(file), "---\n" \o Unwrap(Unwrap(changelog).footer) \o "\n")

(***************************************************************************)
(* Properties of the tokenizer                                             *)
(***************************************************************************)
\* the lines n of the text that hold only a label in brackets and a colon
\* and are followed by a line holding a URL
TwoLineLinks(lines) ==
  {n \in 1..(Len(lines) - 1) :
     /\ IsMatch(link_ref_regex, lines[n])
     /\ StartsWith(Trim(lines[n + 1]), "http")}

\* the tokens that tokenize returned for line n of the text
TokensOfLine(n) ==
  SelectSeq(Unwrap(lexed).tokens, LAMBDA t : t.line = n)

\* C22: a line of the form [anchor]: followed at once by a line holding the
\* URL is tokenized into exactly one Link token, the second line gives no
\* token of its own, and the parse succeeds and turns the token into a Link
\* whose anchor is the label without brackets and whose url is the URL.
C22_TwoLineLink ==
  Lexed =>
    \A n \in TwoLineLinks(LinesOf(Unwrap(file))) :
      /\ Len(TokensOfLine(n)) = 1
      /\ TokensOfLine(n)[1].kind = "Link"
      /\ TokensOfLine(n + 1) = <<>>
      /\ (StepsPass(Walked) /\ GrammarEnd(KindsOf(Walked)) = Len(Walked)) =>
           /\ outcome = "ok"
           /\ IsSome(changelog)
           /\ \E i \in 1..Len(Held_links) :
                Held_links[i] =
                  [anchor |-> RemoveChars(Trim(LinesOf(Unwrap(file))[n]), {"[", "]", ":"}),
                   url |-> Trim(LinesOf(Unwrap(file))[n + 1])]

\* the raw line begins with two spaces at least
IsIndented(line) ==
  Len(line) >= 2 /\ Ch(line, 1) \in WhiteSpace /\ Ch(line, 2) \in WhiteSpace

\* the raw line that line k of the content of token t stands for: the
\* content begins at the first line from t.line on that is not blank (the
\* blank lines at both ends of a content are trimmed away)
ContentLineOf(lines, t, k) ==
  lines[SetMin({n \in t.line..Len(lines) : Trim(lines[n]) # ""}) + k - 1]

\* C23: in the second pass of the tokenizer a paragraph line right after a
\* list item is appended to the item, two leading spaces stripped, only when
\* its raw line begins with two spaces at least; a paragraph line without
\* that indentation (a blank line followed by an unindented paragraph
\* included) is not taken into the item; consecutive paragraph lines merge
\* into one paragraph token.
C23_ContinuationMerging ==
  Lexed =>
    \A i \in 1..Len(Unwrap(lexed).tokens) :
      \E t \in {Unwrap(lexed).tokens[i]} :
        /\ t.kind = "Li" =>
             \A k \in 2..Len(t.content) :
               /\ IsIndented(ContentLineOf(LinesOf(Unwrap(file)), t, k))
               /\ t.content[k] =
                    TrimEnd(SubSeq(ContentLineOf(LinesOf(Unwrap(file)), t, k), 3,
                                   Len(ContentLineOf(LinesOf(Unwrap(file)), t, k))))
        /\ t.kind = "P" =>
             /\ \A k \in 1..Len(t.content) :
                  t.content[k] = TrimEnd(ContentLineOf(LinesOf(Unwrap(file)), t, k))
             /\ i > 1 => Unwrap(lexed).tokens[i - 1].kind # "P"

(***************************************************************************)
(* Properties of the saved text                                            *)
(***************************************************************************)
\* C24: whatever runs of blank lines the rendered text holds, the saved text
\* has exactly one blank line in place of each run, so that no two blank
\* lines in a row remain, and it ends with exactly one newline character.
C24_BlankLinesCollapsed ==
  Saved =>
    /\ ~StrContains(Unwrap(file), "\n\n\n")
    /\ EndsWith(Unwrap(file), "\n")
    /\ ~EndsWith(Unwrap(file), "\n\n")

(***************************************************************************)
(* Properties of the yanked flag                                           *)
(***************************************************************************)
\* the release headings of a text that end with [yanked], in any case
YankedHeadings(text) ==
  {n \in 1..Len(LinesOf(text)) :
     /\ StartsWith(LinesOf(text)[n], PREFIX_H2)
     /\ EndsWith(ToLowercase(TrimEnd(LinesOf(text)[n])), "[yanked]")}

YankedReleases(releases) == {i \in 1..Len(releases) : releases[i].yanked}

\* the heading of a yanked release, in its two forms
YankedHeading(r) ==
  IF HasVersion(r) /\ HasDate(r)
  THEN "## [" \o VersionToString(Unwrap(r.version)) \o "] - "
         \o FormatDate(Unwrap(r.date)) \o " [YANKED]"
  ELSE "## [Unreleased] [YANKED]"

\* C25: a release parsed from a heading that ends with [yanked] has
\* yanked = true, in the dated and in the unreleased branch; rendering a
\* release with yanked = true appends " [YANKED]" to its heading in both
\* forms; so the flag survives parsing, rendering and parsing again.
C25_YankedSurvives ==
  /\ (Lexed /\ outcome = "ok") =>
       /\ Cardinality(YankedReleases(Held_releases))
            = Cardinality(YankedHeadings(Unwrap(file)))
       /\ Cardinality(YankedReleases(Held_releases))
            = Cardinality(YankedHeadings(Unwrap(input)))
  /\ Saved =>
       \A i \in YankedReleases(Held_releases) :
         \E n \in 1..Len(SavedLines) : SavedLines[n] = YankedHeading(Held_releases[i])

(***************************************************************************)
(* Properties of add_release                                               *)
(***************************************************************************)
\* how many times release x stands in the list
Count(releases, x) == Cardinality({i \in 1..Len(releases) : releases[i] = x})

\* C26: after add_release(r) the list of releases is a permutation of the
\* list before with r added: it is longer by exactly one and nothing is
\* dropped, merged or doubled, also when r equals a stored release or is a
\* second Unreleased; every other field of the Changelog is unchanged.
C26_AddReleaseConserves ==
  [][op' = "add_release" =>
       /\ IsSome(changelog) /\ IsSome(changelog')
       /\ Len(Held_releases') = Len(Held_releases) + 1
       /\ \A x \in ReleaseSet :
            Count(Held_releases', x)
              = Count(Held_releases, x) + (IF x = args'[1] THEN 1 ELSE 0)
       /\ [Unwrap(changelog') EXCEPT !.releases = Held_releases] = Unwrap(changelog)]_vars

\* a release equal to a stored one was added: both are in the list
C26_Witness ==
  /\ op = "add_release"
  /\ args = <<RelA>>
  /\ Count(Held_releases, RelA) = 2
  /\ Len(Held_releases) = 3

\* the index of the first stored release with neither version nor date
\* (0: none), the receiver of the position() call in sort_releases
FirstUnreleased(releases) ==
  LET found == {i \in 1..Len(releases) : IsUnreleased(releases[i])}
  IN IF found = {} THEN 0 ELSE SetMin(found)

\* the step adds an Unreleased section to a Changelog that stores one
SecondUnreleased ==
  /\ op' = "add_release"
  /\ IsSome(changelog)
  /\ IsUnreleased(args'[1])
  /\ FirstUnreleased(Held_releases) > 0

\* the earlier Unreleased section, the first one stored before the step
Earlier == Held_releases[FirstUnreleased(Held_releases)]

\* C27: when add_release adds a release with neither version nor date while
\* such a release is stored, the new one ends at index 0 and get_unreleased
\* returns it; the earlier one stays in the list behind every dated
\* release, followed only by releases without a date.
C27_SecondUnreleased ==
  [][SecondUnreleased =>
       /\ Held_releases'[1] = args'[1]
       /\ get_unreleased(Unwrap(changelog')) = Some(args'[1])
       /\ \E i \in 2..Len(Held_releases') :
            /\ Held_releases'[i] = Earlier
            /\ \A j \in 2..Len(Held_releases') :
                 HasDate(Held_releases'[j]) => j < i]_vars

\* C27 as stated: the earlier Unreleased section is moved to the end of the
\* list
C27_EarlierMovedToEnd ==
  [][SecondUnreleased =>
       /\ Held_releases'[1] = args'[1]
       /\ get_unreleased(Unwrap(changelog')) = Some(args'[1])
       /\ Held_releases'[Len(Held_releases')] = Earlier]_vars

\* a second Unreleased section was added in front of a dated release and
\* the earlier Unreleased section
C27_Witness ==
  /\ op = "add_release"
  /\ args = <<RelU2>>
  /\ Held_releases = <<RelU2, RelA, RelU>>

(***************************************************************************)
(* Properties of the set of disabled lints                                 *)
(***************************************************************************)
Held_lint == IF IsSome(changelog) THEN Unwrap(changelog).lint ELSE None

\* C28: from a Changelog whose set of disabled lints is absent or not empty,
\* after any sequence of set_compact, unset_compact, disable_lint and
\* enable_lint the set is absent or not empty, and a saved text that begins
\* with a markdownlint-disable comment names in it every rule of the set.
C28_LintNeverEmpty ==
  /\ IsSome(Held_lint) => Unwrap(Held_lint) # {}
  /\ (Saved /\ StartsWith(SavedHead, "<!-- markdownlint-disable")) =>
       /\ IsSome(Held_lint)
       /\ SavedHead # "<!-- markdownlint-disable  -->"
       /\ \E code \in Unwrap(Held_lint) : StrContains(SavedHead, " " \o code \o " ")
       /\ \A code \in Unwrap(Held_lint) : StrContains(SavedHead, " " \o code \o " ")

\* both lints of a compact Changelog were enabled one after the other: with
\* the last one removed the set is absent
C28_Witness ==
  /\ op = "enable_lint"
  /\ IsSome(changelog)
  /\ Unwrap(changelog).compact
  /\ IsNone(Held_lint)

====
